---- MODULE Spec2Model ----
(***************************************************************************)
(* State-machine model of the slot simulator's round pipeline (v1.5):      *)
(* simulate() -> selectOutcome -> PatternResolver.resolve (with its        *)
(* internal visual pass) -> PayRuleEvaluator.evaluate -> validateStrict -> *)
(* VisualConstraintEngine.applyConstraints -> FSM transition / accumulate. *)
(* Every draw of an RNG is a nondeterministic choice over the values the   *)
(* draw can return.                                                        *)
(***************************************************************************)
EXTENDS Integers, Sequences, FiniteSets, TLC

VARIABLES
  configPath,         \* the design file simulate() was started on
  config,             \* the design object simulate() parsed from that file
  pc,                 \* position of simulate() inside the loop body
  currentState,       \* FSM state: "BASE" or "FREE"
  freeSpinsRemaining,
  baseSpins,
  freeGameSpinsCount,
  globalSpinIndex,
  result,             \* SimulationResult accumulators
  visualState,        \* caller-owned tease state shared with the engine
  outcome,            \* outcome selected for the current round
  patternResult,      \* what resolve() returned (grid, winLine, ...)
  winEvents,          \* evaluator output of the current round
  validationResult,   \* validateStrict output of the current round
  evaluateCalls,      \* evaluate() invocations in the current round
  visualRoll,         \* first draw of the round's visual RNG against the tease chance
  visualCall,         \* caller and return site of the latest applyConstraints call
  lastSpin,           \* the spinLog entry pushed by the most recent round
  error,              \* message class of the Error that ended simulate()
  seedArgs,           \* the seed given to simulate(): customSeed and config.seed
  runNo,              \* which of the two runs of the determinism harness is under way
  firstRun,           \* the spin log of the first run, once it has returned
  sim                 \* draw-level state of the run under way (streams, grid, log)

vars == <<configPath, config, pc, currentState, freeSpinsRemaining, baseSpins,
          freeGameSpinsCount, globalSpinIndex, result, visualState, outcome,
          patternResult, winEvents, validationResult,
          evaluateCalls, visualRoll, visualCall, lastSpin, error,
          seedArgs, runNo, firstRun, sim>>

\* the variables of the round-level model and those of the draw-level model
roundVars == <<configPath, config, pc, currentState, freeSpinsRemaining, baseSpins,
               freeGameSpinsCount, globalSpinIndex, result, visualState, outcome,
               patternResult, winEvents, validationResult,
               evaluateCalls, visualRoll, visualCall, lastSpin, error>>
seededVars == <<seedArgs, runNo, firstRun, sim>>

(***************************************************************************)
(* Bounds of the exploration.                                              *)
(***************************************************************************)
MaxBaseSpins == 2
MaxTeaseSpins == 4

(***************************************************************************)
(* Values standing for JavaScript null / undefined.                        *)
(***************************************************************************)
NoLine == -1
NoSpin == -1
NoLimit == -1
NoSymbol == "null"

(***************************************************************************)
(* Design configs the simulator is run with.  A payout multiplier is kept  *)
(* in tenths so that Math.round(multiplier * bet) is computed, not assumed.*)
(***************************************************************************)
Row(r, cols) == [c \in 1..cols |-> <<r, c - 1>>]

Paylines2x3 == << Row(0, 3), Row(1, 3), << <<0, 0>>, <<1, 1>>, <<0, 2>> >> >>

SymbolsLine ==
  << [id |-> "L1", type |-> "LOW"],  [id |-> "L2", type |-> "LOW"],
     [id |-> "H1", type |-> "HIGH"] >>

NoWinCondition == [type |-> "NONE", symbolId |-> NoSymbol, count |-> 0]
NoWinConfig == [present |-> FALSE, symbolId |-> NoSymbol, matchCount |-> 0]

LossOutcome(id) ==
  [id |-> id, type |-> "LOSS", payoutX10 |-> 0, weight |-> 70, nearMissId |-> FALSE,
   winCondition |-> NoWinCondition, winConfig |-> NoWinConfig]

FeatureOutcome(id) ==
  [id |-> id, type |-> "FEATURE", payoutX10 |-> 0, weight |-> 5, nearMissId |-> FALSE,
   winCondition |-> NoWinCondition, winConfig |-> NoWinConfig]

LineWinOutcome(id, payoutX10, symbolId, matchCount, withWinConfig) ==
  [id |-> id, type |-> "WIN", payoutX10 |-> payoutX10, weight |-> 25, nearMissId |-> FALSE,
   winCondition |-> [type |-> "LINE", symbolId |-> symbolId, count |-> matchCount],
   winConfig |-> IF withWinConfig
                 THEN [present |-> TRUE, symbolId |-> symbolId, matchCount |-> matchCount]
                 ELSE NoWinConfig]

\* a symbol set with an ANY_POSITION symbol (v1.5.3) and a WILD
SymbolsAnyPosition ==
  << [id |-> "L1", type |-> "LOW"],  [id |-> "L2", type |-> "LOW"],
     [id |-> "A1", type |-> "ANY_POSITION"], [id |-> "W1", type |-> "WILD"] >>

OutcomeTablesLine(freeWinSymbolId) ==
  [BASE |-> << LossOutcome("LOSS"),
               LineWinOutcome("SMALL_WIN", 25, "L1", 3, TRUE),
               FeatureOutcome("FREE_TRIGGER") >>,
   FREE |-> << LossOutcome("FREE_LOSS"),
               LineWinOutcome("FREE_SMALL_WIN", 5, freeWinSymbolId, 3, FALSE) >>]

\* nearMissId: whether the outcome id contains 'NEAR_MISS'
\* tease.chance: the chance used is 0 ("NEVER"), 1 ("ALWAYS") or strictly between
VisualConfig(enabled) ==
  [enabled |-> enabled, maxRetries |-> 2,
   nearMiss |-> [enabled |-> TRUE],
   tease |-> [enabled |-> TRUE, targetOutcomeIds |-> {"SMALL_WIN"},
              chance |-> "SOMETIMES", cooldownSpins |-> 0,
              maxTriggersPer100Spins |-> NoLimit]]

LineConfig(symbols, freeWinSymbolId, visualOn) ==
  [grid |-> [rows |-> 2, cols |-> 3], paylines |-> Paylines2x3,
   symbols |-> symbols, outcomeTables |-> OutcomeTablesLine(freeWinSymbolId),
   baseBet |-> 1, freeSpinCount |-> 1, visualConfig |-> VisualConfig(visualOn)]

\* design files of the draw-level runs: no FEATURE outcome, tease disabled, no
\* near-miss outcome, so that Phase 1 of the visual engine draws nothing
SeededVisualConfig(enabled) ==
  [enabled |-> enabled, maxRetries |-> 2, patchVersion |-> "v1.4.patch",
   nearMiss |-> [enabled |-> TRUE],
   tease |-> [enabled |-> FALSE, targetOutcomeIds |-> {}, chance |-> "NEVER",
              cooldownSpins |-> 0, maxTriggersPer100Spins |-> NoLimit]]

SeededConfig(visualOn) ==
  [grid |-> [rows |-> 2, cols |-> 3], paylines |-> Paylines2x3, symbols |-> SymbolsLine,
   outcomeTables |-> [BASE |-> << LossOutcome("LOSS"),
                                  LineWinOutcome("SMALL_WIN", 25, "L1", 3, TRUE) >>,
                      FREE |-> << LossOutcome("LOSS") >>],
   baseBet |-> 1, freeSpinCount |-> 1, visualConfig |-> SeededVisualConfig(visualOn)]

\* an outcome realised by count anywhere on the grid (v1.5.3): winCondition
\* { type: 'ANY_POSITION', symbolId, targetCount }
AnyPositionWinOutcome(id, payoutX10, symbolId, targetCount) ==
  [id |-> id, type |-> "WIN", payoutX10 |-> payoutX10, weight |-> 10, nearMissId |-> FALSE,
   winCondition |-> [type |-> "ANY_POSITION", symbolId |-> symbolId, count |-> targetCount],
   winConfig |-> NoWinConfig]

\* design file of the any-position acceptance runs: LINE and ANY_POSITION conditions
\* side by side, visual layer off
AnyPositionConfig ==
  [grid |-> [rows |-> 2, cols |-> 3], paylines |-> Paylines2x3,
   symbols |-> SymbolsAnyPosition,
   outcomeTables |-> [BASE |-> << LossOutcome("LOSS"),
                                  LineWinOutcome("SMALL_WIN", 25, "L1", 3, TRUE),
                                  AnyPositionWinOutcome("A1_WIN", 50, "A1", 3) >>,
                      FREE |-> << LossOutcome("FREE_LOSS") >>],
   baseBet |-> 1, freeSpinCount |-> 1, visualConfig |-> VisualConfig(FALSE)]

\* design files with the tease throttles of v1.4.patch configured
TeaseConfig(cooldownSpins, maxTriggersPer100Spins) ==
  [LineConfig(SymbolsLine, "H1", TRUE) EXCEPT
     !.visualConfig.tease.chance = "SOMETIMES",
     !.visualConfig.tease.cooldownSpins = cooldownSpins,
     !.visualConfig.tease.maxTriggersPer100Spins = maxTriggersPer100Spins]

\* a design whose paylines are longer than the matchCount of its WIN outcomes
Paylines2x4 == << Row(0, 4), Row(1, 4) >>

WideLineConfig ==
  [grid |-> [rows |-> 2, cols |-> 4], paylines |-> Paylines2x4, symbols |-> SymbolsLine,
   outcomeTables |-> [BASE |-> << LossOutcome("LOSS"),
                                  LineWinOutcome("SMALL_WIN", 25, "L1", 3, TRUE),
                                  LineWinOutcome("BIG_WIN", 100, "H1", 4, TRUE) >>,
                      FREE |-> << LossOutcome("FREE_LOSS") >>],
   baseBet |-> 1, freeSpinCount |-> 1, visualConfig |-> VisualConfig(FALSE)]

ConfigFiles ==
  [ line_visual |-> LineConfig(SymbolsLine, "H1", TRUE),
    line_wide |-> WideLineConfig,
    line_plain |-> LineConfig(SymbolsLine, "H1", FALSE),
    any_position_visual |-> LineConfig(SymbolsAnyPosition, "L2", TRUE),
    seeded_visual |-> SeededConfig(TRUE),
    seeded_plain |-> SeededConfig(FALSE),
    any_position_trigger |-> AnyPositionConfig,
    tease_cooldown |-> TeaseConfig(2, NoLimit),
    tease_rate_limited |-> TeaseConfig(0, 2),
    tease_throttled |-> TeaseConfig(2, 1) ]

\* the design files the round-level model and the draw-level model are started on
RoundConfigPaths == {"line_visual", "line_plain", "any_position_visual"}
SeededConfigPaths == {"seeded_visual", "seeded_plain"}
AnyPositionConfigPaths == {"any_position_trigger"}
TeaseConfigPaths == {"tease_cooldown", "tease_rate_limited", "tease_throttled"}

\* JSON.parse(fs.readFileSync(configPath)): the parsed design file
LoadConfig(path) == ConfigFiles[path]

(***************************************************************************)
(* Grid helpers.  A grid maps <<row, col>> to a symbol id.                 *)
(***************************************************************************)
Cells == (0..(config.grid.rows - 1)) \X (0..(config.grid.cols - 1))
SymbolIds == {config.symbols[i].id : i \in 1..Len(config.symbols)}
SymbolIdsOfType(types) ==
  {config.symbols[i].id : i \in {j \in 1..Len(config.symbols) : config.symbols[j].type \in types}}
PaylineIndexes == 0..(Len(config.paylines) - 1)
Payline(paylineIndex) == config.paylines[paylineIndex + 1]

(***************************************************************************)
(* PatternGenerator (patternGenerator.js).                                 *)
(***************************************************************************)
\* winCondition.eligiblePaylines || 'ANY': 'ANY', an array of payline indexes, or one
\* fixed index (held as a one-element list)
EligibleAny == [kind |-> "ANY", indexes |-> <<>>]
EligiblePaylinesOf(winCondition) ==
  IF "eligiblePaylines" \in DOMAIN winCondition THEN winCondition.eligiblePaylines
  ELSE EligibleAny

\* the payline indexes the selection can yield; none when the generator throws (empty
\* array, index outside the configured paylines)
SelectedPaylineIndexes(winCondition) ==
  LET eligiblePaylines == EligiblePaylinesOf(winCondition)
  IN  IF eligiblePaylines.kind = "ANY" THEN PaylineIndexes
      ELSE {eligiblePaylines.indexes[i] : i \in 1..Len(eligiblePaylines.indexes)}
             \cap PaylineIndexes

\* anchors on the first matchCount positions of a payline drawn by localRng;
\* winCondition.payDirection is read by the generator and used nowhere
GenerateLineAnchors(winCondition) ==
  { [anchors |-> [cell \in {Payline(selectedPaylineIndex)[i] :
                              i \in 1..(IF winCondition.count < Len(Payline(selectedPaylineIndex))
                                        THEN winCondition.count
                                        ELSE Len(Payline(selectedPaylineIndex)))}
                   |-> winCondition.symbolId],
     generatedWinLine |-> selectedPaylineIndex,
     winConditionType |-> "LINE"] :
       selectedPaylineIndex \in SelectedPaylineIndexes(winCondition) }

GenerateAnyPositionAnchors(winCondition) ==
  { [anchors |-> [cell \in {} |-> NoSymbol],
     generatedWinLine |-> NoLine,
     winConditionType |-> "ANY_POSITION"] }

Generate(winCondition) ==
  IF winCondition.type = "LINE" THEN GenerateLineAnchors(winCondition)
  ELSE GenerateAnyPositionAnchors(winCondition)

(***************************************************************************)
(* PatternResolver (resolver.js): grid construction and validation.        *)
(***************************************************************************)
MaxGridRetries == 10

FillerWeight(type) ==
  CASE type = "LOW" -> 50 [] type = "MID" -> 30 [] type = "HIGH" -> 15
    [] type = "WILD" -> 4 [] type = "SCATTER" -> 1 [] OTHER -> 1

\* every id _getFillerSymbol can return: the 70% LOW/MID branch or the weighted list
GetFillerSymbol ==
  SymbolIdsOfType({"LOW", "MID"}) \cup
  {config.symbols[i].id : i \in {j \in 1..Len(config.symbols) : FillerWeight(config.symbols[j].type) > 0}}

RECURSIVE ConsecutiveCount(_, _, _)
\* value of consecutiveCount after the loop visited position i of the payline
ConsecutiveCount(grid, payline, i) ==
  IF i = 1 THEN 1
  ELSE IF grid[payline[i]] = grid[payline[i - 1]]
       THEN ConsecutiveCount(grid, payline, i - 1) + 1
       ELSE 1

ValidateGrid(grid, expectedWinLine) ==
  \A paylineIndex \in PaylineIndexes :
    \A i \in 1..Len(Payline(paylineIndex)) :
      ConsecutiveCount(grid, Payline(paylineIndex), i) >= 3 => expectedWinLine = paylineIndex

\* grids obtained by writing the anchors and drawing a filler for every other cell
FilledGrids(anchors) ==
  { [cell \in Cells |-> IF cell \in DOMAIN anchors THEN anchors[cell] ELSE filler[cell]] :
      filler \in [Cells \ DOMAIN anchors -> GetFillerSymbol] }

ExpectedWinLine(generatedInfo) ==
  IF generatedInfo.winConditionType = "LINE" THEN generatedInfo.generatedWinLine ELSE NoLine

RECURSIVE RefillLoop(_, _)
\* grids with which the refill loop can be left when entered at iteration retry
RefillLoop(generatedInfo, retry) ==
  LET refilled == FilledGrids(generatedInfo.anchors)
      valid == {g \in refilled : ValidateGrid(g, ExpectedWinLine(generatedInfo))}
  IN  IF retry + 1 >= MaxGridRetries
      THEN refilled
      ELSE valid \cup (IF refilled # valid THEN RefillLoop(generatedInfo, retry + 1) ELSE {})

ResolveFromAnchors(generatedInfo) ==
  LET first == FilledGrids(generatedInfo.anchors)
      valid == {g \in first : ValidateGrid(g, ExpectedWinLine(generatedInfo))}
      grids == valid \cup (IF first # valid THEN RefillLoop(generatedInfo, 0) ELSE {})
  IN  { [grid |-> g, winLine |-> generatedInfo.generatedWinLine,
         patternSource |-> "GENERATED",
         winConditionType |-> generatedInfo.winConditionType] : g \in grids }

LowMidSymbols == SelectSeq(config.symbols, LAMBDA s : s.type \in {"LOW", "MID"})

\* position (0-based) of the cell on the first payline that holds it, -1 if on none
FirstPaylinePosition(cell) ==
  LET holders == {p \in PaylineIndexes : \E i \in 1..Len(Payline(p)) : Payline(p)[i] = cell}
  IN  IF holders = {} THEN -1
      ELSE LET p == CHOOSE q \in holders : \A h \in holders : q <= h
           IN  (CHOOSE i \in 1..Len(Payline(p)) : Payline(p)[i] = cell) - 1

GenerateLossGrid ==
  LET covered == {cell \in Cells : FirstPaylinePosition(cell) >= 0}
  IN  { [cell \in Cells |->
           IF cell \in covered
           THEN LowMidSymbols[(FirstPaylinePosition(cell) % Len(LowMidSymbols)) + 1].id
           ELSE filler[cell]] : filler \in [Cells \ covered -> GetFillerSymbol] }

RECURSIVE FixCollisions(_, _, _, _, _)
\* grids _fixCollisions can leave, scanning payline p from position i
FixCollisions(grid, p, i, consecutiveCount, lastSymbol) ==
  IF p >= Len(config.paylines) THEN {grid}
  ELSE IF i > Len(Payline(p)) THEN FixCollisions(grid, p + 1, 1, 1, NoSymbol)
  ELSE LET currentSymbol == grid[Payline(p)[i]]
           others == SymbolIdsOfType({"LOW", "MID"}) \ {currentSymbol}
       IN  IF currentSymbol = lastSymbol
           THEN IF consecutiveCount + 1 >= 3 /\ others # {}
                THEN UNION { FixCollisions([grid EXCEPT ![Payline(p)[i]] = s], p, i + 1, 1, s) :
                               s \in others }
                ELSE FixCollisions(grid, p, i + 1, consecutiveCount + 1, lastSymbol)
           ELSE FixCollisions(grid, p, i + 1, 1, currentSymbol)

ResolveLoss ==
  LET generated == GenerateLossGrid
      valid == {g \in generated : ValidateGrid(g, NoLine)}
      forced == IF generated # valid
                THEN UNION {FixCollisions(g, 0, 1, 1, NoSymbol) : g \in generated}
                ELSE {}
  IN  { [grid |-> g, winLine |-> NoLine, patternSource |-> "NONE",
         winConditionType |-> "NONE"] : g \in valid \cup forced }

(***************************************************************************)
(* PayRuleEvaluator (payRuleEvaluator.js, v1.5.3).                         *)
(***************************************************************************)
RECURSIVE LineMatchCount(_, _, _)
\* matchCount once the left-to-right loop has looked at positions 1..i
LineMatchCount(grid, payline, i) ==
  IF i = 1 THEN 1
  ELSE IF LineMatchCount(grid, payline, i - 1) = i - 1 /\ grid[payline[i]] = grid[payline[1]]
       THEN i
       ELSE LineMatchCount(grid, payline, i - 1)

\* <<event>> when the line pays from its first cell, <<>> otherwise
EvaluateLinePay(grid, payline, paylineIndex) ==
  LET matchCount == LineMatchCount(grid, payline, Len(payline))
  IN  IF Len(payline) = 0 \/ matchCount < 3 \/ grid[payline[1]] \notin SymbolIds
      THEN <<>>
      ELSE << [ruleType |-> "LINE", winAmount |-> 0, paidSymbolId |-> grid[payline[1]],
               positions |-> {payline[i] : i \in 1..matchCount},
               matchCount |-> matchCount, paylineIndex |-> paylineIndex] >>

EvaluateAnyPositionPay(grid) ==
  LET anyPos == SelectSeq(config.symbols, LAMBDA s : s.type = "ANY_POSITION")
      a1Positions == {cell \in Cells : grid[cell] = anyPos[1].id}
  IN  IF Len(anyPos) = 0 \/ Cardinality(a1Positions) < 3
      THEN <<>>
      ELSE << [ruleType |-> "ANY_POSITION", winAmount |-> 0, paidSymbolId |-> anyPos[1].id,
               positions |-> a1Positions, matchCount |-> Cardinality(a1Positions),
               paylineIndex |-> NoLine] >>

RECURSIVE AllLineEvents(_, _)
\* the events of paylines p, p + 1, ... with no break after the first one
AllLineEvents(grid, p) ==
  IF p >= Len(config.paylines) THEN <<>>
  ELSE EvaluateLinePay(grid, Payline(p), p) \o AllLineEvents(grid, p + 1)

\* mutant of Evaluate: every paying line and the any-position rule report their event
EvaluateEveryRule(grid) == AllLineEvents(grid, 0) \o EvaluateAnyPositionPay(grid)

\* mutant of Evaluate: the any-position rule is evaluated even when a line paid
EvaluateLineAndAnyPosition(grid) ==
  LET paying == {p \in PaylineIndexes : EvaluateLinePay(grid, Payline(p), p) # <<>>}
      lineEvents == IF paying # {}
                    THEN LET first == CHOOSE p \in paying : \A q \in paying : p <= q
                         IN  EvaluateLinePay(grid, Payline(first), first)
                    ELSE <<>>
  IN  lineEvents \o EvaluateAnyPositionPay(grid)

\* mutant of Evaluate: the last paying line is reported, not the first
EvaluateLastLine(grid) ==
  LET paying == {p \in PaylineIndexes : EvaluateLinePay(grid, Payline(p), p) # <<>>}
  IN  IF paying # {}
      THEN LET last == CHOOSE p \in paying : \A q \in paying : p >= q
           IN  EvaluateLinePay(grid, Payline(last), last)
      ELSE EvaluateAnyPositionPay(grid)

Evaluate(grid) ==
  LET paying == {p \in PaylineIndexes : EvaluateLinePay(grid, Payline(p), p) # <<>>}
  IN  IF paying # {}
      THEN LET first == CHOOSE p \in paying : \A q \in paying : p <= q
           IN  EvaluateLinePay(grid, Payline(first), first)
      ELSE EvaluateAnyPositionPay(grid)

(***************************************************************************)
(* simulate(): expected amount and strict validation.                      *)
(***************************************************************************)
\* mutant of ExpectedWinAmount: the product truncated instead of rounded
ExpectedWinAmountTruncated(o, bet) == (o.payoutX10 * bet) \div 10
\* Math.round(outcome.payoutMultiplier * bet), the multiplier held in tenths
ExpectedWinAmount(o, bet) == (o.payoutX10 * bet + 5) \div 10

\* the evaluator's events after simulate() has set winEvents[0].winAmount
WireWinAmount(o, bet, evaluated) ==
  IF o.type = "WIN" /\ Len(evaluated) > 0
  THEN [evaluated EXCEPT ![1].winAmount = ExpectedWinAmount(o, bet)]
  ELSE evaluated

RECURSIVE SumWinAmount(_)
SumWinAmount(events) ==
  IF events = <<>> THEN 0 ELSE Head(events).winAmount + SumWinAmount(Tail(events))

\* mutant of STRICT_MODE: a mismatch is logged, not thrown
StrictModeOff == FALSE
STRICT_MODE == TRUE

\* mutant of ValidateStrict: the validator throws whatever it compared
ValidateStrictAlwaysThrows(o, bet, events) ==
  [expectedWinAmount |-> ExpectedWinAmount(o, bet),
   evaluatedWinAmount |-> SumWinAmount(events),
   evaluationMatch |-> (ExpectedWinAmount(o, bet) = SumWinAmount(events)),
   thrown |-> STRICT_MODE]
ValidateStrict(o, bet, events) ==
  [expectedWinAmount |-> ExpectedWinAmount(o, bet),
   evaluatedWinAmount |-> SumWinAmount(events),
   evaluationMatch |-> (ExpectedWinAmount(o, bet) = SumWinAmount(events)),
   thrown |-> (STRICT_MODE /\ ExpectedWinAmount(o, bet) # SumWinAmount(events))]

(***************************************************************************)
(* VisualConstraintEngine (visualConstraint.js).                           *)
(***************************************************************************)
\* mutant of forbiddenSymbolsInVisual: the constructor forbids no category
forbiddenSymbolsInVisualNone == {}
forbiddenSymbolsInVisual == {"WILD", "SCATTER", "BONUS"}

ForbiddenSymbolIds == SymbolIdsOfType(forbiddenSymbolsInVisual)

IsPaylineIndex(winLine) == winLine # NoLine /\ winLine >= 0 /\ winLine < Len(config.paylines)

\* the first matchCount cells of a payline
LinePrefix(paylineIndex, matchCount) ==
  {Payline(paylineIndex)[i] : i \in {j \in 1..Len(Payline(paylineIndex)) : j <= matchCount}}

\* JSON.stringify({ type: 'MAX_RETRIES', maxRetries, finalReason }) (lines 266-274)
MaxRetriesDetail == "{type:MAX_RETRIES}"

InitialTelemetry ==
  [visualRequestedType |-> "NONE", visualAppliedType |-> "NONE", visualApplied |-> FALSE,
   visualAttemptsUsed |-> 0, visualGuardFailReason |-> "null",
   visualGuardFailDetail |-> "null",
   teaseEligible |-> FALSE, teaseBlockedBy |-> "NONE"]

\* mutant of FinalizeTelemetry: visualApplied is left as the loop set it
FinalizeTelemetryKeepingApplied(telemetry) ==
  LET applied == telemetry.visualAppliedType # "NONE"
      requested == telemetry.visualRequestedType # "NONE"
  IN  [telemetry EXCEPT !.visualGuardFailReason = IF applied \/ ~requested THEN "" ELSE @,
                        !.visualGuardFailDetail = IF applied \/ ~requested THEN "" ELSE @]

\* mutant of FinalizeTelemetry: the final-fail fields are cleared on success only
FinalizeTelemetryKeepingReason(telemetry) ==
  LET applied == telemetry.visualAppliedType # "NONE"
  IN  [telemetry EXCEPT !.visualApplied = applied,
                        !.visualGuardFailReason = IF applied THEN "" ELSE @,
                        !.visualGuardFailDetail = IF applied THEN "" ELSE @]

FinalizeTelemetry(telemetry) ==
  LET applied == telemetry.visualAppliedType # "NONE"
      requested == telemetry.visualRequestedType # "NONE"
  IN  [telemetry EXCEPT !.visualApplied = applied,
                        !.visualGuardFailReason = IF applied \/ ~requested THEN "" ELSE @,
                        !.visualGuardFailDetail = IF applied \/ ~requested THEN "" ELSE @]

\* mutant of DeriveProtectedCells: the legacy line is consulted before the win events
DeriveProtectedCellsLegacyFirst(events, legacyWinLine, o) ==
  IF IsPaylineIndex(legacyWinLine)
  THEN LinePrefix(legacyWinLine, o.winConfig.matchCount)
  ELSE IF Len(events) > 0 THEN events[1].positions ELSE {}
DeriveProtectedCells(events, legacyWinLine, o) ==
  IF Len(events) > 0 /\ events[1].positions # {}
  THEN events[1].positions
  ELSE IF IsPaylineIndex(legacyWinLine)
       THEN LinePrefix(legacyWinLine, o.winConfig.matchCount)
       ELSE {}

\* winEvents[0].paylineIndex if defined, else the legacy line
WinLineOf(events, legacyWinLine) ==
  IF Len(events) > 0 /\ events[1].paylineIndex # NoLine
  THEN events[1].paylineIndex
  ELSE legacyWinLine

IsNearMiss(o) == config.visualConfig.nearMiss.enabled /\ o.type = "LOSS" /\ o.nearMissId

\* eligibility gate (lines 444-456)
TeaseEligible(o) ==
  /\ config.visualConfig.tease.enabled
  /\ o.type = "WIN"
  /\ o.id \in config.visualConfig.tease.targetOutcomeIds

\* cooldown gate (lines 475-487); vState.supplied: context.visualState is an object
CooldownBlocks(spinIndex, vState) ==
  /\ config.visualConfig.tease.cooldownSpins > 0
  /\ vState.supplied
  /\ vState.lastTeaseSpinIndex # NoSpin
  /\ spinIndex - vState.lastTeaseSpinIndex <= config.visualConfig.tease.cooldownSpins

\* the rolling window the rate-limit gate works on (lines 494-502)
TeaseWindow(spinIndex, vState) ==
  IF ~vState.hasWindow \/ spinIndex < vState.windowStart
     \/ spinIndex >= vState.windowStart + 100
  THEN [start |-> IF spinIndex - 99 > 0 THEN spinIndex - 99 ELSE 0, count |-> 0]
  ELSE [start |-> vState.windowStart, count |-> vState.windowCount]

RateLimitApplies(vState) ==
  config.visualConfig.tease.maxTriggersPer100Spins # NoLimit /\ vState.supplied

\* rate-limit gate (lines 489-507)
RateLimitBlocks(spinIndex, vState) ==
  /\ RateLimitApplies(vState)
  /\ TeaseWindow(spinIndex, vState).count >= config.visualConfig.tease.maxTriggersPer100Spins

TeaseBlocked(by, vState) ==
  [eligible |-> by # "NOT_ELIGIBLE", requested |-> FALSE, blockedBy |-> by,
   visualState |-> vState]

\* every gate passed (lines 509-516): the window is written back to the caller's state
TeasePassed(spinIndex, vState) ==
  [eligible |-> TRUE, requested |-> TRUE, blockedBy |-> "NONE",
   visualState |->
     IF RateLimitApplies(vState)
     THEN [vState EXCEPT !.hasWindow = TRUE, !.windowStart = TeaseWindow(spinIndex, vState).start,
                         !.windowCount = TeaseWindow(spinIndex, vState).count]
     ELSE vState]

\* mutant of ShouldTease: the rate-limit gate is evaluated before the cooldown gate
ShouldTeaseRateLimitFirst(o, roll, spinIndex, vState) ==
  IF ~TeaseEligible(o) THEN TeaseBlocked("NOT_ELIGIBLE", vState)
  ELSE IF roll # "BELOW" THEN TeaseBlocked("CHANCE_MISS", vState)
  ELSE IF RateLimitBlocks(spinIndex, vState) THEN TeaseBlocked("RATE_LIMIT", vState)
  ELSE IF CooldownBlocks(spinIndex, vState) THEN TeaseBlocked("COOLDOWN", vState)
  ELSE TeasePassed(spinIndex, vState)

\* mutant of ShouldTease: a missing visualState is read as "last tease at spin 0"
ShouldTeaseDefaultingState(o, roll, spinIndex, vState) ==
  IF ~TeaseEligible(o) THEN TeaseBlocked("NOT_ELIGIBLE", vState)
  ELSE IF roll # "BELOW" THEN TeaseBlocked("CHANCE_MISS", vState)
  ELSE IF CooldownBlocks(spinIndex, vState)
          \/ (~vState.supplied /\ spinIndex <= config.visualConfig.tease.cooldownSpins)
  THEN TeaseBlocked("COOLDOWN", vState)
  ELSE IF RateLimitBlocks(spinIndex, vState) THEN TeaseBlocked("RATE_LIMIT", vState)
  ELSE TeasePassed(spinIndex, vState)

\* mutant of ShouldTease: the cooldown gate blocks on `<` instead of `<=`
ShouldTeaseCooldownStrict(o, roll, spinIndex, vState) ==
  IF ~TeaseEligible(o) THEN TeaseBlocked("NOT_ELIGIBLE", vState)
  ELSE IF roll # "BELOW" THEN TeaseBlocked("CHANCE_MISS", vState)
  ELSE IF CooldownBlocks(spinIndex + 1, vState) THEN TeaseBlocked("COOLDOWN", vState)
  ELSE IF RateLimitBlocks(spinIndex, vState) THEN TeaseBlocked("RATE_LIMIT", vState)
  ELSE TeasePassed(spinIndex, vState)

\* roll: where the first draw of the round's visual RNG falls relative to the chance used
ShouldTease(o, roll, spinIndex, vState) ==
  IF ~TeaseEligible(o) THEN TeaseBlocked("NOT_ELIGIBLE", vState)
  ELSE IF roll # "BELOW" THEN TeaseBlocked("CHANCE_MISS", vState)
  ELSE IF CooldownBlocks(spinIndex, vState) THEN TeaseBlocked("COOLDOWN", vState)
  ELSE IF RateLimitBlocks(spinIndex, vState) THEN TeaseBlocked("RATE_LIMIT", vState)
  ELSE TeasePassed(spinIndex, vState)

\* lines 156-165: a requested tease is recorded in the caller's state, if there is one
TeaseStateAfter(teaseCheck, spinIndex) ==
  IF teaseCheck.requested /\ teaseCheck.visualState.supplied
  THEN [teaseCheck.visualState EXCEPT
          !.lastTeaseSpinIndex = spinIndex,
          !.windowCount = IF teaseCheck.visualState.hasWindow THEN @ + 1 ELSE @]
  ELSE teaseCheck.visualState

\* the rolls the first draw can give for this outcome ("NONE": no draw is made)
TeaseRolls(o) ==
  IF ~config.visualConfig.enabled \/ ~config.visualConfig.tease.enabled \/ o.type # "WIN"
     \/ o.id \notin config.visualConfig.tease.targetOutcomeIds
  THEN {"NONE"}
  ELSE CASE config.visualConfig.tease.chance = "NEVER" -> {"ABOVE"}
         [] config.visualConfig.tease.chance = "ALWAYS" -> {"BELOW"}
         [] OTHER -> {"BELOW", "ABOVE"}

\* ordered selections of n distinct paylines out of a set
RECURSIVE PaylineSelections(_, _)
PaylineSelections(available, n) ==
  IF n = 0 \/ available = {} THEN { <<>> }
  ELSE UNION { { <<p>> \o rest : rest \in PaylineSelections(available \ {p}, n - 1) } :
               p \in available }

\* protected set after the fallback both _applyTease and _applyWinGeneralOptimization apply
WinProtectedCells(protectedCells, o, winLine) ==
  IF protectedCells = {} /\ IsPaylineIndex(winLine)
  THEN LinePrefix(winLine, o.winConfig.matchCount)
  ELSE protectedCells

RECURSIVE PlaceTease(_, _, _)
\* grids after the tease pattern was written on each selected payline in turn
PlaceTease(grid, lines, protectedCells) ==
  IF lines = <<>> THEN {grid}
  ELSE LET payline == Payline(Head(lines))
           highSymbols == SymbolIdsOfType({"HIGH"}) \ ForbiddenSymbolIds
           lowSymbols == SymbolIdsOfType({"LOW"}) \ ForbiddenSymbolIds
           written(teaseSymbol, breakSymbol) ==
             [cell \in Cells |->
                IF cell \in protectedCells THEN grid[cell]
                ELSE IF Len(payline) >= 3 /\ cell = payline[3] THEN breakSymbol
                ELSE IF \E i \in 1..Len(payline) : i <= 2 /\ cell = payline[i] THEN teaseSymbol
                ELSE grid[cell]]
       IN  IF highSymbols = {} \/ lowSymbols = {}
           THEN PlaceTease(grid, Tail(lines), protectedCells)
           ELSE UNION { PlaceTease(written(t, b), Tail(lines), protectedCells) :
                          <<t, b>> \in highSymbols \X lowSymbols }

\* cells past matchCount on the true line holding the win symbol get a different symbol
AntiExtend(grid, truePayline, matchCount, winSymbolId) ==
  LET cells == {truePayline[i] : i \in {j \in 1..Len(truePayline) : j > matchCount}}
      hit == {cell \in cells : grid[cell] = winSymbolId}
      differentSymbols == (SymbolIds \ {winSymbolId}) \ ForbiddenSymbolIds
  IN  IF hit = {} \/ differentSymbols = {} THEN {grid}
      ELSE { [cell \in Cells |-> IF cell \in hit THEN repl[cell] ELSE grid[cell]] :
               repl \in [hit -> differentSymbols] }

ApplyTease(grid, o, winLine, protectedCells) ==
  IF ~IsPaylineIndex(winLine) \/ ~o.winConfig.present \/ o.winConfig.matchCount = 0
  THEN {grid}
  ELSE LET others == PaylineIndexes \ {winLine}
           counts == {IF n < Cardinality(others) THEN n ELSE Cardinality(others) : n \in {1, 2}}
           selections == UNION {PaylineSelections(others, n) : n \in counts}
           teased == UNION {PlaceTease(grid, sel, WinProtectedCells(protectedCells, o, winLine)) :
                              sel \in selections}
       IN  UNION {AntiExtend(g, Payline(winLine), o.winConfig.matchCount, o.winConfig.symbolId) :
                    g \in teased}

RECURSIVE PlaceNearMiss(_, _, _)
\* grids after the near-miss pattern was written on each selected payline in turn
PlaceNearMiss(grid, lines, targetSymbol) ==
  IF lines = <<>> THEN {grid}
  ELSE LET payline == Payline(Head(lines))
           lowSymbols == SymbolIdsOfType({"LOW"}) \ ForbiddenSymbolIds
           differentSymbols == IF lowSymbols # {} THEN lowSymbols
                               ELSE (SymbolIds \ {targetSymbol}) \ ForbiddenSymbolIds
           written(breakSymbol) ==
             [cell \in Cells |->
                IF Len(payline) >= 3 /\ cell = payline[3] /\ differentSymbols # {} THEN breakSymbol
                ELSE IF \E i \in 1..Len(payline) : i <= 2 /\ cell = payline[i] THEN targetSymbol
                ELSE grid[cell]]
       IN  IF differentSymbols = {}
           THEN PlaceNearMiss(written(targetSymbol), Tail(lines), targetSymbol)
           ELSE UNION { PlaceNearMiss(written(b), Tail(lines), targetSymbol) :
                          b \in differentSymbols }

ApplyNearMissLinePay(grid) ==
  LET counts == {IF n < Len(config.paylines) THEN n ELSE Len(config.paylines) : n \in {1, 2}}
      selections == UNION {PaylineSelections(PaylineIndexes, n) : n \in counts}
      highSymbols == SymbolIdsOfType({"HIGH"}) \ ForbiddenSymbolIds
      nonSpecialSymbols == SymbolIds \ ForbiddenSymbolIds
      targetSymbols == IF highSymbols # {} THEN highSymbols ELSE nonSpecialSymbols
  IN  IF targetSymbols = {} THEN {grid}
      ELSE UNION { PlaceNearMiss(grid, sel, t) : <<sel, t>> \in selections \X targetSymbols }

\* every id _getWeightedFillerSymbol can return for the candidate symbols
GetWeightedFillerSymbol(candidateSymbols) ==
  IF candidateSymbols \ ForbiddenSymbolIds # {}
  THEN candidateSymbols \ ForbiddenSymbolIds
  ELSE SymbolIds \ ForbiddenSymbolIds

ImproveVisualDistribution(grid, protectedCells, forbiddenSymbols) ==
  LET filtered == IF forbiddenSymbols # {} THEN SymbolIds \ forbiddenSymbols ELSE SymbolIds
      candidateSymbols == IF filtered = {} THEN SymbolIds ELSE filtered
      fillers == GetWeightedFillerSymbol(candidateSymbols)
  IN  IF protectedCells = {}
      THEN [Cells -> fillers]
      ELSE { [cell \in Cells |-> IF cell \in protectedCells THEN grid[cell] ELSE selected[cell]] :
               selected \in [Cells \ protectedCells -> fillers] }

ApplyWinGeneralOptimization(grid, o, winLine, protectedCells) ==
  ImproveVisualDistribution(grid, WinProtectedCells(protectedCells, o, winLine),
                            IF o.winConfig.present THEN {o.winConfig.symbolId} ELSE {})

ApplyLossGeneralOptimization(grid) == ImproveVisualDistribution(grid, {}, {})

\* mutant of ValidateNoAccidentalWin: the payline scan is skipped
ValidateNoAccidentalWinSkipped(grid, expectedWinLine) == TRUE
ValidateNoAccidentalWin(grid, expectedWinLine) ==
  \A paylineIndex \in PaylineIndexes :
    \A i \in 1..Len(Payline(paylineIndex)) :
      ConsecutiveCount(grid, Payline(paylineIndex), i) >= 3 => expectedWinLine = paylineIndex

ValidateSafety(grid, o, winLine) ==
  IF o.type = "WIN"
  THEN /\ IsPaylineIndex(winLine) =>
            \A i \in 1..Len(Payline(winLine)) :
               i > o.winConfig.matchCount =>
                 ~(o.winConfig.present /\ grid[Payline(winLine)[i]] = o.winConfig.symbolId)
       /\ ValidateNoAccidentalWin(grid, winLine)
  ELSE ValidateNoAccidentalWin(grid, NoLine)

\* TRUE when a forbidden symbol is detected outside the win line's first matchCount cells
CheckForbiddenSymbols(grid, o, winLine) ==
  LET protectedCells == IF IsPaylineIndex(winLine) /\ o.type = "WIN"
                        THEN LinePrefix(winLine, o.winConfig.matchCount)
                        ELSE {}
  IN  \E cell \in Cells \ protectedCells : grid[cell] \in ForbiddenSymbolIds

\* one grid per distinct content of the protected cells
Representatives(grids, protectedCells) ==
  LET key(g) == [cell \in protectedCells |-> g[cell]]
  IN  IF protectedCells = {} THEN {CHOOSE g \in grids : TRUE}
      ELSE {CHOOSE g \in grids : key(g) = k : k \in {key(g) : g \in grids}}

\* Phase 2 applied to any of the grids.  Phase 2 redraws every cell that is not
\* protected, so its results depend on a grid only through the protected cells
\* (and on no grid at all for the loss optimization, which protects nothing).
GeneralOptimization(grids, o, winLine, protectedCells, lossForOthers) ==
  IF o.type = "WIN"
  THEN UNION {ApplyWinGeneralOptimization(g, o, winLine, protectedCells) :
                g \in Representatives(grids, WinProtectedCells(protectedCells, o, winLine))}
  ELSE IF o.type = "LOSS" \/ lossForOthers
       THEN ApplyLossGeneralOptimization(CHOOSE g \in grids : TRUE)
       ELSE grids

MaxRetries == IF config.visualConfig.maxRetries = 0 THEN 10 ELSE config.visualConfig.maxRetries

NoVisualCall == [caller |-> "NONE", returnedAt |-> "NONE", visualAttemptsUsed |-> 0]

\* The engine seeds its RNG from mathSeed, spinIndex and outcomeId only, so a second
\* call in the same round repeats the draws of the earlier one.  For a LOSS outcome no
\* draw and no verdict of the loop depends on the grid or the events passed in, so the
\* candidates, their verdicts and the return site of the earlier call are known.
DrawsKnown(o, earlier) == o.type = "LOSS" /\ earlier.returnedAt \in {"SUCCESS", "FALLBACK"}

\* mutant of Fallback: a grid of the first symbol is returned instead of baseGrid
FallbackToFirstSymbol(baseGrid) ==
  [grid |-> [cell \in Cells |-> config.symbols[1].id],
   visualAttemptsUsed |-> MaxRetries, returnedAt |-> "FALLBACK"]
\* the return after the loop: the copy of the input taken before Phase 1
Fallback(baseGrid) ==
  [grid |-> baseGrid, visualAttemptsUsed |-> MaxRetries, returnedAt |-> "FALLBACK"]

RECURSIVE SafetyLoop(_, _, _, _, _, _, _)
\* Phase 3: what the retry loop can return when iteration retry starts on a candidate.
\* With known draws the candidate of the iteration the earlier call returned from is
\* the grid that call returned (this call's input), and the earlier candidates failed.
SafetyLoop(candidates, baseGrid, o, expectedWinLine, protectedCells, retry, earlier) ==
  LET safe(g) == /\ ~CheckForbiddenSymbols(g, o, expectedWinLine)
                 /\ ValidateSafety(g, o, expectedWinLine)
      known == DrawsKnown(o, earlier)
      passedBefore == /\ known
                      /\ earlier.returnedAt = "SUCCESS"
                      /\ earlier.visualAttemptsUsed = retry + 1
      passing == IF ~known THEN {g \in candidates : safe(g)}
                 ELSE IF passedBefore THEN {g \in {baseGrid} : g \in candidates /\ safe(g)}
                 ELSE {}
      rejected == {g \in candidates : ~safe(g)}
      someRejected == ~passedBefore /\ \E g \in candidates : ~safe(g)
  IN  {[grid |-> g, visualAttemptsUsed |-> retry + 1, returnedAt |-> "SUCCESS"] : g \in passing}
      \cup
      (IF ~someRejected THEN {}
       ELSE IF retry + 1 < MaxRetries
            THEN SafetyLoop(GeneralOptimization(rejected, o, expectedWinLine, protectedCells, TRUE),
                            baseGrid, o, expectedWinLine, protectedCells, retry + 1, earlier)
            ELSE {Fallback(baseGrid)})

\* context: [spinIndex, roll, visualState]; results carry the visualState the call leaves.
\* earlier: the call already made in this round with the same visual seed, if any.
ApplyConstraints(grid, o, events, context, legacyWinLine, earlier) ==
  IF ~config.visualConfig.enabled
  THEN {[grid |-> grid, telemetry |-> InitialTelemetry,
         visualState |-> context.visualState, returnedAt |-> "DISABLED"]}
  ELSE
    LET protectedCells == DeriveProtectedCells(events, legacyWinLine, o)
        teaseCheck == ShouldTease(o, context.roll, context.spinIndex, context.visualState)
        winLine == WinLineOf(events, legacyWinLine)
        requestedType == IF teaseCheck.requested THEN "TEASE"
                         ELSE IF IsNearMiss(o) THEN "NEAR_MISS" ELSE "NONE"
        stateAfter == TeaseStateAfter(teaseCheck, context.spinIndex)
        phase1 == IF teaseCheck.requested THEN ApplyTease(grid, o, winLine, protectedCells)
                  ELSE IF IsNearMiss(o) THEN ApplyNearMissLinePay(grid)
                  ELSE {grid}
        phase2 == GeneralOptimization(phase1, o, winLine, protectedCells, FALSE)
        telemetry(r) ==
          FinalizeTelemetry(
            [visualRequestedType |-> requestedType,
             visualAppliedType |-> IF r.returnedAt = "SUCCESS" THEN requestedType ELSE "NONE",
             visualApplied |-> FALSE,
             visualAttemptsUsed |-> r.visualAttemptsUsed,
             visualGuardFailReason |-> IF r.returnedAt = "SUCCESS" THEN "" ELSE "MAX_RETRIES",
             visualGuardFailDetail |-> IF r.returnedAt = "SUCCESS" THEN "" ELSE MaxRetriesDetail,
             teaseEligible |-> teaseCheck.eligible,
             teaseBlockedBy |-> teaseCheck.blockedBy])
    IN  {[grid |-> r.grid, telemetry |-> telemetry(r), visualState |-> stateAfter,
          returnedAt |-> r.returnedAt] :
           r \in SafetyLoop(phase2, grid, o, winLine, protectedCells, 0, earlier)}

(***************************************************************************)
(* PatternResolver.resolve: the base grid, then the resolver's own call of *)
(* the visual engine.  That call passes patternResult.winLine where the    *)
(* engine expects winEvents and passes no legacyWinLine; a number or null  *)
(* never satisfies `winEvents.length > 0`, so the engine sees no events    *)
(* and no legacy line.                                                     *)
(***************************************************************************)
ResolveBase(o) ==
  IF o.type = "WIN"
  THEN UNION {ResolveFromAnchors(generatedInfo) : generatedInfo \in Generate(o.winCondition)}
  ELSE ResolveLoss

\* patternResult.visualTelemetry = visualResult.telemetry
WithTelemetry(pr, telemetry) ==
  [grid |-> pr.grid, winLine |-> pr.winLine, patternSource |-> pr.patternSource,
   winConditionType |-> pr.winConditionType, visualTelemetry |-> telemetry]

ResolveVisual(base, o, context) ==
  { [patternResult |-> WithTelemetry([base EXCEPT !.grid = v.grid], v.telemetry),
     telemetry |-> v.telemetry,
     visualState |-> v.visualState,
     returnedAt |-> v.returnedAt] :
      v \in ApplyConstraints(base.grid, o, <<>>, context, NoLine, NoVisualCall) }

(***************************************************************************)
(* simulate(): the loop of rounds.                                         *)
(***************************************************************************)
targetBaseSpins == MaxBaseSpins

NoOutcome == LossOutcome("NONE")
EmptyGrid == [cell \in {} |-> NoSymbol]
NoPatternResult ==
  [grid |-> EmptyGrid, winLine |-> NoLine, patternSource |-> "NONE",
   winConditionType |-> "NONE", visualTelemetry |-> InitialTelemetry]
NoValidation ==
  [expectedWinAmount |-> 0, evaluatedWinAmount |-> 0, evaluationMatch |-> TRUE, thrown |-> FALSE]
NoSpinLogged ==
  [globalSpinIndex |-> 0, state |-> "NONE", outcomeId |-> "NONE", type |-> "NONE",
   winAmount |-> 0, expectedWinAmount |-> 0, evaluatedWinAmount |-> 0,
   evaluationMatch |-> TRUE, evaluatedEventCount |-> 0]
\* every outcome weightedSelect can return
SelectOutcome(outcomeTable) ==
  {outcomeTable[i] : i \in {j \in 1..Len(outcomeTable) : outcomeTable[j].weight > 0}}

\* the draw-level variables while the round-level model runs
\* JavaScript values a seed can take, tagged with their type
JsNull == [type |-> "null"]
JsUndefined == [type |-> "undefined"]
NoSeedArgs == [customSeed |-> JsNull, configSeed |-> JsUndefined]
NoSim == [pc |-> "idle"]

\* the counters and the per-round variables of simulate() before the first round
RoundInit ==
  /\ pc = "loop"
  /\ currentState = "BASE"
  /\ freeSpinsRemaining = 0
  /\ baseSpins = 0
  /\ freeGameSpinsCount = 0
  /\ globalSpinIndex = 0
  /\ result = [totalBaseBet |-> 0, baseGameWin |-> 0, featureWin |-> 0, triggerCount |-> 0]
  /\ visualState = [supplied |-> TRUE, lastTeaseSpinIndex |-> NoSpin, hasWindow |-> FALSE,
                    windowStart |-> 0, windowCount |-> 0]
  /\ outcome = NoOutcome
  /\ patternResult = NoPatternResult
  /\ winEvents = <<>>
  /\ validationResult = NoValidation
  /\ evaluateCalls = 0
  /\ visualRoll = "NONE"
  /\ visualCall = NoVisualCall
  /\ lastSpin = NoSpinLogged
  /\ error = "NONE"

Init ==
  /\ configPath \in RoundConfigPaths
  /\ config = LoadConfig(configPath)
  /\ RoundInit
  /\ seedArgs = NoSeedArgs
  /\ runNo = 0
  /\ firstRun = <<>>
  /\ sim = NoSim

\* loop head, check-in phase and outcome selection of one round
BeginRound ==
  /\ pc = "loop"
  /\ UNCHANGED seededVars
  /\ baseSpins < targetBaseSpins
  /\ globalSpinIndex' = globalSpinIndex + 1
  /\ IF currentState = "BASE"
     THEN /\ baseSpins' = baseSpins + 1
          /\ result' = [result EXCEPT !.totalBaseBet = @ + config.baseBet]
          /\ UNCHANGED freeGameSpinsCount
     ELSE /\ freeGameSpinsCount' = freeGameSpinsCount + 1
          /\ UNCHANGED <<baseSpins, result>>
  /\ \E o \in SelectOutcome(config.outcomeTables[currentState]) : outcome' = o
  /\ patternResult' = NoPatternResult
  /\ winEvents' = <<>>
  /\ validationResult' = NoValidation
  /\ evaluateCalls' = 0
  /\ visualRoll' = "NONE"
  /\ visualCall' = NoVisualCall
  /\ pc' = "resolve"
  /\ UNCHANGED <<configPath, config, currentState, freeSpinsRemaining, visualState, lastSpin, error>>

\* baseResolver.resolve(outcome, context) up to the base grid (resolver.js steps 1-3)
ResolveGrid ==
  /\ pc = "resolve"
  /\ UNCHANGED seededVars
  /\ \E base \in ResolveBase(outcome) :
       patternResult' = WithTelemetry(base, InitialTelemetry)
  /\ pc' = "resolveVisual"
  /\ UNCHANGED <<configPath, config, currentState, freeSpinsRemaining, baseSpins, freeGameSpinsCount,
                 globalSpinIndex, result, visualState, outcome, winEvents, validationResult,
                 evaluateCalls, visualRoll, visualCall, lastSpin, error>>

\* the rest of resolve(): the resolver's own call of the visual engine, then the return
ResolverVisual ==
  /\ pc = "resolveVisual"
  /\ UNCHANGED seededVars
  /\ \E roll \in TeaseRolls(outcome) :
       \E r \in ResolveVisual(patternResult, outcome,
                              [spinIndex |-> globalSpinIndex, roll |-> roll,
                               visualState |-> visualState]) :
         /\ patternResult' = r.patternResult
         /\ visualState' = r.visualState
         /\ visualRoll' = roll
         /\ visualCall' = [caller |-> "resolve", returnedAt |-> r.returnedAt,
                            visualAttemptsUsed |-> r.telemetry.visualAttemptsUsed]
  /\ pc' = "evaluate"
  /\ UNCHANGED <<configPath, config, currentState, freeSpinsRemaining, baseSpins, freeGameSpinsCount,
                 globalSpinIndex, result, outcome, winEvents, validationResult,
                 evaluateCalls, lastSpin, error>>

\* baseEvaluator.evaluate(patternResult.grid) and the wiring of winEvents[0].winAmount
EvaluateGrid ==
  /\ pc = "evaluate"
  /\ UNCHANGED seededVars
  /\ winEvents' = WireWinAmount(outcome, config.baseBet, Evaluate(patternResult.grid))
  /\ evaluateCalls' = evaluateCalls + 1
  /\ pc' = "validate"
  /\ UNCHANGED <<configPath, config, currentState, freeSpinsRemaining, baseSpins, freeGameSpinsCount,
                 globalSpinIndex, result, visualState, outcome, patternResult,
                 validationResult, visualRoll, visualCall, lastSpin, error>>

\* validateStrict(outcome, baseBet, winEvents, STRICT_MODE); a throw ends simulate()
Validate ==
  /\ pc = "validate"
  /\ UNCHANGED seededVars
  /\ validationResult' = ValidateStrict(outcome, config.baseBet, winEvents)
  /\ IF validationResult'.thrown
     THEN pc' = "aborted" /\ error' = "Validation mismatch"
     ELSE pc' = "visual" /\ UNCHANGED error
  /\ UNCHANGED <<configPath, config, currentState, freeSpinsRemaining, baseSpins, freeGameSpinsCount,
                 globalSpinIndex, result, visualState, outcome, patternResult,
                 winEvents, evaluateCalls, visualRoll, visualCall, lastSpin>>

\* the visual call of simulate(), made after the evaluation with winEvents
ApplyVisual ==
  /\ pc = "visual"
  /\ UNCHANGED seededVars
  /\ IF config.visualConfig.enabled
     THEN \E v \in ApplyConstraints(patternResult.grid, outcome, winEvents,
                                    [spinIndex |-> globalSpinIndex, roll |-> visualRoll,
                                     visualState |-> visualState],
                                    patternResult.winLine, visualCall) :
            /\ patternResult' = [patternResult EXCEPT !.grid = v.grid,
                                                      !.visualTelemetry = v.telemetry]
            /\ visualState' = v.visualState
            /\ visualCall' = [caller |-> "simulate", returnedAt |-> v.returnedAt,
                               visualAttemptsUsed |-> v.telemetry.visualAttemptsUsed]
     ELSE UNCHANGED <<patternResult, visualState, visualCall>>
  /\ pc' = "transition"
  /\ UNCHANGED <<configPath, config, currentState, freeSpinsRemaining, baseSpins, freeGameSpinsCount,
                 globalSpinIndex, result, outcome, winEvents,
                 validationResult, evaluateCalls, visualRoll, lastSpin, error>>

\* FSM transition, win accumulation and spin logging of the round
Transition ==
  /\ pc = "transition"
  /\ UNCHANGED seededVars
  /\ LET justTriggered == currentState = "BASE" /\ outcome.type = "FEATURE"
         winAmount == validationResult.evaluatedWinAmount
     IN  /\ IF justTriggered
            THEN /\ currentState' = "FREE"
                 /\ freeSpinsRemaining' = config.freeSpinCount
            ELSE IF currentState = "FREE"
                 THEN IF freeSpinsRemaining - 1 <= 0
                      THEN currentState' = "BASE" /\ freeSpinsRemaining' = 0
                      ELSE currentState' = "FREE" /\ freeSpinsRemaining' = freeSpinsRemaining - 1
                 ELSE UNCHANGED <<currentState, freeSpinsRemaining>>
         /\ result' = [result EXCEPT
                         !.triggerCount = IF justTriggered THEN @ + 1 ELSE @,
                         !.baseGameWin = IF currentState = "BASE" THEN @ + winAmount ELSE @,
                         !.featureWin = IF currentState = "FREE" THEN @ + winAmount ELSE @]
         /\ lastSpin' = [globalSpinIndex |-> globalSpinIndex, state |-> currentState,
                         outcomeId |-> outcome.id, type |-> outcome.type,
                         winAmount |-> winAmount,
                         expectedWinAmount |-> validationResult.expectedWinAmount,
                         evaluatedWinAmount |-> validationResult.evaluatedWinAmount,
                         evaluationMatch |-> validationResult.evaluationMatch,
                         evaluatedEventCount |-> Len(winEvents)]
  /\ outcome' = NoOutcome
  /\ patternResult' = NoPatternResult
  /\ winEvents' = <<>>
  /\ validationResult' = NoValidation
  /\ evaluateCalls' = 0
  /\ visualRoll' = "NONE"
  /\ visualCall' = NoVisualCall
  /\ pc' = "loop"
  /\ UNCHANGED <<configPath, config, baseSpins, freeGameSpinsCount, globalSpinIndex, visualState, error>>

\* the loop condition fails: derived metrics are computed and simulate() returns
Finish ==
  /\ pc = "loop"
  /\ UNCHANGED seededVars
  /\ baseSpins >= targetBaseSpins
  /\ pc' = "done"
  /\ UNCHANGED <<configPath, config, currentState, freeSpinsRemaining, baseSpins, freeGameSpinsCount,
                 globalSpinIndex, result, visualState, outcome, patternResult,
                 winEvents, validationResult, evaluateCalls, visualRoll,
                 visualCall, lastSpin, error>>

Next ==
  \/ BeginRound
  \/ ResolveGrid
  \/ ResolverVisual
  \/ EvaluateGrid
  \/ Validate
  \/ ApplyVisual
  \/ Transition
  \/ Finish

Spec == Init /\ [][Next]_vars

\* the same loop started on the design file of the any-position acceptance runs
InitAnyPosition ==
  /\ configPath \in AnyPositionConfigPaths
  /\ config = LoadConfig(configPath)
  /\ RoundInit
  /\ seedArgs = NoSeedArgs
  /\ runNo = 0
  /\ firstRun = <<>>
  /\ sim = NoSim

SpecAnyPosition == InitAnyPosition /\ [][Next]_vars

TypeOK ==
  /\ pc \in {"loop", "resolve", "resolveVisual", "evaluate", "validate", "visual", "transition", "done", "aborted"}
  /\ currentState \in {"BASE", "FREE"}
  /\ evaluateCalls \in 0..1

(***************************************************************************)
(* logic/simulate.js: the v1.2 loop that cli.js, run.js and the acceptance *)
(* tests require.  It builds the resolver without a visualConfig (so the   *)
(* resolver has no visual engine), has no evaluator and no validation, and *)
(* accumulates outcome.payoutMultiplier * baseBet without rounding: under  *)
(* SpecLegacy the win totals and the logged winAmount are therefore kept   *)
(* in tenths of a credit.                                                  *)
(***************************************************************************)
LegacyWinAmountX10(o, bet) == o.payoutX10 * bet

\* the placeholder of a FREE round: { grid: [], winLine: null }
LegacyPlaceholder == [grid |-> EmptyGrid, winLine |-> NoLine]

\* loop head, check-in phase and outcome selection (6.1, 6.2)
LegacyBeginRound ==
  /\ pc = "loop"
  /\ UNCHANGED seededVars
  /\ baseSpins < targetBaseSpins
  /\ globalSpinIndex' = globalSpinIndex + 1
  /\ IF currentState = "BASE"
     THEN /\ baseSpins' = baseSpins + 1
          /\ result' = [result EXCEPT !.totalBaseBet = @ + config.baseBet]
          /\ UNCHANGED freeGameSpinsCount
     ELSE /\ freeGameSpinsCount' = freeGameSpinsCount + 1
          /\ UNCHANGED <<baseSpins, result>>
  /\ \E o \in SelectOutcome(config.outcomeTables[currentState]) : outcome' = o
  /\ patternResult' = NoPatternResult
  /\ pc' = "resolve"
  /\ UNCHANGED <<configPath, config, currentState, freeSpinsRemaining, visualState, winEvents,
                 validationResult, evaluateCalls, visualRoll, visualCall, lastSpin, error>>

\* pattern resolution (6.3): baseResolver.resolve(outcome) in BASE, a placeholder in FREE
LegacyResolve ==
  /\ pc = "resolve"
  /\ UNCHANGED seededVars
  /\ IF currentState = "BASE"
     THEN \E base \in ResolveBase(outcome) : patternResult' = base
     ELSE patternResult' = LegacyPlaceholder
  /\ pc' = "transition"
  /\ UNCHANGED <<configPath, config, currentState, freeSpinsRemaining, baseSpins, freeGameSpinsCount,
                 globalSpinIndex, result, visualState, outcome, winEvents, validationResult,
                 evaluateCalls, visualRoll, visualCall, lastSpin, error>>

\* FSM transition, win accumulation and spin logging (6.4, 6.5)
LegacyTransition ==
  /\ pc = "transition"
  /\ UNCHANGED seededVars
  /\ LET justTriggered == currentState = "BASE" /\ outcome.type = "FEATURE"
         winAmount == LegacyWinAmountX10(outcome, config.baseBet)
     IN  /\ IF justTriggered
            THEN /\ currentState' = "FREE"
                 /\ freeSpinsRemaining' = config.freeSpinCount
            ELSE IF currentState = "FREE"
                 THEN IF freeSpinsRemaining - 1 <= 0
                      THEN currentState' = "BASE" /\ freeSpinsRemaining' = 0
                      ELSE currentState' = "FREE" /\ freeSpinsRemaining' = freeSpinsRemaining - 1
                 ELSE UNCHANGED <<currentState, freeSpinsRemaining>>
         /\ result' = [result EXCEPT
                         !.triggerCount = IF justTriggered THEN @ + 1 ELSE @,
                         !.baseGameWin = IF currentState = "BASE" THEN @ + winAmount ELSE @,
                         !.featureWin = IF currentState = "FREE" THEN @ + winAmount ELSE @]
         /\ lastSpin' = [globalSpinIndex |-> globalSpinIndex, state |-> currentState,
                         outcomeId |-> outcome.id, type |-> outcome.type,
                         winAmount |-> winAmount]
  /\ outcome' = NoOutcome
  /\ patternResult' = NoPatternResult
  /\ pc' = "loop"
  /\ UNCHANGED <<configPath, config, baseSpins, freeGameSpinsCount, globalSpinIndex, visualState,
                 winEvents, validationResult, evaluateCalls, visualRoll, visualCall, error>>

\* the loop condition fails and simulate() returns
LegacyFinish ==
  /\ pc = "loop"
  /\ UNCHANGED seededVars
  /\ baseSpins >= targetBaseSpins
  /\ pc' = "done"
  /\ UNCHANGED <<configPath, config, currentState, freeSpinsRemaining, baseSpins, freeGameSpinsCount,
                 globalSpinIndex, result, visualState, outcome, patternResult,
                 winEvents, validationResult, evaluateCalls, visualRoll,
                 visualCall, lastSpin, error>>

NextLegacy ==
  \/ LegacyBeginRound
  \/ LegacyResolve
  \/ LegacyTransition
  \/ LegacyFinish

SpecLegacy == Init /\ [][NextLegacy]_vars

(***************************************************************************)
(* rng.js at the level of single draws.  A 32-bit quantity is a record     *)
(* [hi, lo] of two 16-bit halves, so that the LCG step and the string hash *)
(* are computed with the width the code gives them.  A draw is a set of    *)
(* [value, rng] results: one in seeded mode, one per Math.random() value   *)
(* in legacy mode.                                                         *)
(***************************************************************************)
Half == 65536

U32(hi, lo) == [hi |-> hi, lo |-> lo]

\* a small non-negative integer as a 32-bit quantity
ToU32(n) == U32(n \div Half, n % Half)

\* JavaScript values a seed can be
JsNumber(u) == [type |-> "number", u |-> u]
JsString(chars) == [type |-> "string", chars |-> chars]

\* the UTF-16 code units of the string literals the seed strings are built from
CharCodes ==
  "default" :> <<100, 101, 102, 97, 117, 108, 116>> @@
  "LEGACY" :> <<76, 69, 71, 65, 67, 89>> @@
  "PATTERN" :> <<80, 65, 84, 84, 69, 82, 78>> @@
  "VISUAL" :> <<86, 73, 83, 85, 65, 76>> @@
  "UNKNOWN" :> <<85, 78, 75, 78, 79, 87, 78>> @@
  "unknown" :> <<117, 110, 107, 110, 111, 119, 110>> @@
  "v1.5.0" :> <<118, 49, 46, 53, 46, 48>> @@
  "v1.4.patch" :> <<118, 49, 46, 52, 46, 112, 97, 116, 99, 104>> @@
  "|" :> <<124>> @@
  ":" :> <<58>> @@
  "LOSS" :> <<76, 79, 83, 83>> @@
  "SMALL_WIN" :> <<83, 77, 65, 76, 76, 95, 87, 73, 78>>

RECURSIVE DecimalDigits(_)
DecimalDigits(n) == IF n < 10 THEN <<48 + n>> ELSE DecimalDigits(n \div 10) \o <<48 + (n % 10)>>

\* String(v) of a seed value (numbers here are below 2^16)
SeedToString(v) ==
  IF v.type = "string" THEN v.chars
  ELSE IF v.type = "number" THEN DecimalDigits(v.u.lo)
  ELSE CharCodes[v.type]

\* truthiness, as in `v || 'default'` and `!v`
Truthy(v) ==
  IF v.type = "string" THEN v.chars # <<>>
  ELSE IF v.type = "number" THEN v.u # U32(0, 0)
  ELSE FALSE

\* hash = ((hash << 5) - hash) + char; hash = hash & hash, on the unsigned image
HashStep(h, char) ==
  LET lo == h.lo * 31 + char
      hi == (h.hi * 31) + (lo \div Half)
  IN  U32(hi % Half, lo % Half)

\* the hash loop over the characters from position i on, hash being h so far (the halves
\* of a 32-bit quantity are never negative)
RECURSIVE HashFrom(_, _, _)
HashFrom(chars, i, h) ==
  IF i > Len(chars) \/ h.lo < 0 \/ h.hi < 0 THEN h
  ELSE HashFrom(chars, i + 1, HashStep(h, chars[i]))

HashChars(chars, h) == HashFrom(chars, 1, h)

\* Math.abs(hash) || 1 of the int32 whose unsigned image is h
AbsOrOne(h) ==
  IF h = U32(0, 0) THEN U32(0, 1)
  ELSE IF h.hi < 32768 THEN h
  ELSE IF h.lo = 0 THEN U32(Half - h.hi, 0)
  ELSE U32(Half - 1 - h.hi, Half - h.lo)

hashString(chars) == AbsOrOne(HashChars(chars, U32(0, 0)))

\* Math.floor(Math.abs(seedNum)) % 2147483647, then 0 -> 1 (seedNum <= 2^31)
NormalizeSeed(u) ==
  IF u = U32(32768, 0) THEN U32(0, 1)
  ELSE IF u = U32(32767, Half - 1) \/ u = U32(0, 0) THEN U32(0, 1)
  ELSE u

\* new RNG(seed)
NewRNG(seed) ==
  IF seed.type \in {"null", "undefined"}
  THEN [mode |-> "legacy", seed |-> U32(0, 0), draws |-> 0]
  ELSE [mode |-> "seeded",
        seed |-> NormalizeSeed(IF seed.type = "string" THEN hashString(seed.chars) ELSE seed.u),
        draws |-> 0]

\* (1664525 * seed + 1013904223) % 2^32; 1664525 = 25 * 2^16 + 26125,
\* 1013904223 = 15470 * 2^16 + 62303
LcgNext(u) ==
  LET p == 26125 * u.lo
      lo1 == (p % Half) + 62303
      carry == (p \div Half) + (lo1 \div Half)
      hi1 == carry + 25 * u.lo + 26125 * u.hi + 15470
  IN  U32(hi1 % Half, lo1 % Half)

\* values standing for what Math.random() can return, as numerators over 2^32
MathRandomValues == {U32(0, 0), U32(50000, 0)}

\* mutant of random: the first draw of a stream is taken from Math.random()
randomFirstDrawUnseeded(rng) ==
  IF rng.mode = "legacy" \/ rng.draws = 0
  THEN {[value |-> v, rng |-> [rng EXCEPT !.draws = @ + 1]] : v \in MathRandomValues}
  ELSE {[value |-> LcgNext(rng.seed),
         rng |-> [rng EXCEPT !.seed = LcgNext(rng.seed), !.draws = @ + 1]]}
\* random(): the numerator of the value in [0, 1) and the stream after the draw
random(rng) ==
  IF rng.mode = "legacy"
  THEN {[value |-> v, rng |-> [rng EXCEPT !.draws = @ + 1]] : v \in MathRandomValues}
  ELSE {[value |-> LcgNext(rng.seed),
         rng |-> [rng EXCEPT !.seed = LcgNext(rng.seed), !.draws = @ + 1]]}

\* Math.floor(value * max) of randomInt(max)
FloorTimes(value, max) == ((value.hi * max) + ((value.lo * max) \div Half)) \div Half

\* value < 0.7 for the double 0.7: numerator <= 3006477107 = 45875 * 2^16 + 13107
Below07(value) == value.hi < 45875 \/ (value.hi = 45875 /\ value.lo <= 13107)

\* n successive draws: the values in order and the stream after the last one
RECURSIVE Draws(_, _)
Draws(rng, n) ==
  IF n = 0 THEN {[values |-> <<>>, rng |-> rng]}
  ELSE UNION { { [values |-> <<d.value>> \o rest.values, rng |-> rest.rng] :
                   rest \in Draws(d.rng, n - 1) } : d \in random(rng) }

\* RNG.deriveSubSeed(kind, context): kind|mathSeed or LEGACY|spinIndex|outcomeId|patchVersion
deriveSubSeed(kind, context) ==
  LET baseSeed == IF context.mathSeed.type \in {"null", "undefined"}
                  THEN CharCodes["LEGACY"] ELSE SeedToString(context.mathSeed)
      seedString == CharCodes[kind] \o CharCodes["|"] \o baseSeed \o CharCodes["|"]
                    \o DecimalDigits(context.spinIndex) \o CharCodes["|"]
                    \o CharCodes[context.outcomeId] \o CharCodes["|"]
                    \o CharCodes[context.patchVersion]
  IN  JsNumber(AbsOrOne(HashChars(seedString, U32(0, 0))))

(***************************************************************************)
(* The round pipeline at the level of single draws.  Every operator takes  *)
(* the stream it draws from and returns the set of [.., rng] results the   *)
(* draws allow (a single one when the stream is seeded).                   *)
(***************************************************************************)
\* rng.weightedSelect(outcomes): the first outcome whose accumulated weight exceeds
\* random() * totalWeight
RECURSIVE TotalWeight(_)
TotalWeight(outcomes) ==
  IF outcomes = <<>> THEN 0 ELSE Head(outcomes).weight + TotalWeight(Tail(outcomes))

RECURSIVE PickByWeight(_, _, _)
PickByWeight(outcomes, scaled, accumulatedWeight) ==
  IF Len(outcomes) = 1 \/ scaled < accumulatedWeight + Head(outcomes).weight
  THEN Head(outcomes)
  ELSE PickByWeight(Tail(outcomes), scaled, accumulatedWeight + Head(outcomes).weight)

weightedSelect(rng, outcomes) ==
  { [outcome |-> PickByWeight(outcomes, FloorTimes(d.value, TotalWeight(outcomes)), 0),
     rng |-> d.rng] : d \in random(rng) }

\* the cells in the order the nested row / col loops visit them
CellOrder ==
  [k \in 1..(config.grid.rows * config.grid.cols) |->
     <<(k - 1) \div config.grid.cols, (k - 1) % config.grid.cols>>]

\* the weightedSymbols array of the filler functions: each symbol repeated weight times
RECURSIVE PickWeightedSymbol(_, _, _, _)
PickWeightedSymbol(symbols, weights, index, i) ==
  IF i = Len(symbols) \/ index < weights[symbols[i].type] THEN symbols[i].id
  ELSE PickWeightedSymbol(symbols, weights, index - weights[symbols[i].type], i + 1)

RECURSIVE SumWeights(_, _, _)
SumWeights(symbols, weights, i) ==
  IF i > Len(symbols) THEN 0 ELSE weights[symbols[i].type] + SumWeights(symbols, weights, i + 1)

SymbolTypes == {"LOW", "MID", "HIGH", "WILD", "SCATTER", "BONUS"}
\* the weights table of _getFillerSymbol (resolver.js)
ResolverWeights == [type \in SymbolTypes |-> FillerWeight(type)]
\* the weights table of _getWeightedFillerSymbol (visualConstraint.js)
VisualWeights ==
  [type \in SymbolTypes |->
     IF type = "LOW" THEN 50 ELSE IF type = "MID" THEN 30 ELSE IF type = "HIGH" THEN 15 ELSE 1]

\* one call of _getFillerSymbol / _getWeightedFillerSymbol on the stream rng: with LOW or
\* MID symbols present, random() < 0.7 takes selectFromArray(lowMid); otherwise
\* selectFromArray(weightedSymbols)
FillerSymbol(symbols, weights, rng) ==
  LET lowMid == SelectSeq(symbols, LAMBDA sym : sym.type \in {"LOW", "MID"})
      weighted(r) == { [symbol |-> PickWeightedSymbol(symbols, weights,
                                    FloorTimes(d.value, SumWeights(symbols, weights, 1)), 1),
                        rng |-> d.rng] : d \in random(r) }
  IN  IF lowMid = <<>> THEN weighted(rng)
      ELSE UNION { IF Below07(first.value)
                   THEN { [symbol |-> lowMid[FloorTimes(d.value, Len(lowMid)) + 1].id,
                           rng |-> d.rng] : d \in random(first.rng) }
                   ELSE weighted(first.rng) : first \in random(rng) }

\* the cells outside `kept`, in the order of the row / col loops
OpenCells(kept) == SelectSeq(CellOrder, LAMBDA cell : cell \notin kept)

RECURSIVE FillCells(_, _, _, _, _)
\* the nested loops filling the cells of `open` one after the other from the stream rng
FillCells(grid, open, symbols, weights, rng) ==
  IF open = <<>> THEN {[grid |-> grid, rng |-> rng]}
  ELSE UNION { FillCells([grid EXCEPT ![Head(open)] = s.symbol], Tail(open), symbols,
                         weights, s.rng) : s \in FillerSymbol(symbols, weights, rng) }

FillOpenCells(grid, kept, symbols, weights, rng) ==
  FillCells(grid, OpenCells(kept), symbols, weights, rng)

\* _generateLineAnchors with eligiblePaylines 'ANY': localRng.randomInt(paylines.length)
SdGenerateLineAnchors(winCondition, localRng) ==
  LET onLine(selectedPaylineIndex) ==
        CHOOSE info \in GenerateLineAnchors(winCondition) :
          info.generatedWinLine = selectedPaylineIndex
  IN  { onLine(FloorTimes(d.value, Len(config.paylines))) : d \in random(localRng) }

\* the context check of resolve(): a missing spinIndex / mathSeed / outcomeId is defaulted
ResolverContext(context) ==
  [spinIndex |-> context.spinIndex,
   mathSeed |-> IF Truthy(context.mathSeed) THEN context.mathSeed
                ELSE JsString(CharCodes["default"]),
   outcomeId |-> context.outcomeId]

\* _derivePatternSeed: RNG.deriveSubSeed('PATTERN', ...) with patchVersion 'v1.5.0'
derivePatternSeed(context) ==
  deriveSubSeed("PATTERN", [mathSeed |-> context.mathSeed, spinIndex |-> context.spinIndex,
                            outcomeId |-> context.outcomeId, patchVersion |-> "v1.5.0"])

\* patternGenerator.generate: its own stream, seeded from the derived pattern seed
SdGenerate(winCondition, context) ==
  LET derivedSeed == IF context.mathSeed.type \in {"null", "undefined"} THEN JsNull
                     ELSE derivePatternSeed(context)
  IN  IF winCondition.type = "LINE"
      THEN SdGenerateLineAnchors(winCondition, NewRNG(derivedSeed))
      ELSE GenerateAnyPositionAnchors(winCondition)

RECURSIVE SdRefillLoop(_, _, _, _)
\* the refill loop of _resolveFromAnchors entered at iteration retry with an invalid grid
SdRefillLoop(generatedInfo, grid, rng, retry) ==
  IF retry >= MaxGridRetries THEN {[grid |-> grid, rng |-> rng, retries |-> retry]}
  ELSE UNION { IF ValidateGrid(f.grid, ExpectedWinLine(generatedInfo))
               THEN {[grid |-> f.grid, rng |-> f.rng, retries |-> retry + 1]}
               ELSE SdRefillLoop(generatedInfo, f.grid, f.rng, retry + 1) :
               f \in FillOpenCells(grid, DOMAIN generatedInfo.anchors, config.symbols,
                                   ResolverWeights, rng) }

\* _resolveFromAnchors: the fillers are drawn from this.rng, the stream simulate() passed
SdResolveFromAnchors(generatedInfo, rng) ==
  LET anchored == [cell \in Cells |->
                     IF cell \in DOMAIN generatedInfo.anchors
                     THEN generatedInfo.anchors[cell] ELSE NoSymbol]
      filled == UNION { IF ValidateGrid(f.grid, ExpectedWinLine(generatedInfo))
                        THEN {[grid |-> f.grid, rng |-> f.rng, retries |-> 0]}
                        ELSE SdRefillLoop(generatedInfo, f.grid, f.rng, 0) :
                        f \in FillOpenCells(anchored, DOMAIN generatedInfo.anchors,
                                            config.symbols, ResolverWeights, rng) }
  IN  { [patternResult |-> [grid |-> f.grid, winLine |-> generatedInfo.generatedWinLine,
                            patternSource |-> "GENERATED",
                            winConditionType |-> generatedInfo.winConditionType],
         rng |-> f.rng, retries |-> f.retries] : f \in filled }

\* _generateLossGrid: alternating LOW/MID symbols along the paylines, fillers elsewhere
SdGenerateLossGrid(rng) ==
  LET covered == {cell \in Cells : FirstPaylinePosition(cell) >= 0}
      alternating == [cell \in Cells |->
                        IF cell \in covered
                        THEN LowMidSymbols[(FirstPaylinePosition(cell) % Len(LowMidSymbols)) + 1].id
                        ELSE NoSymbol]
  IN  FillOpenCells(alternating, covered, config.symbols, ResolverWeights, rng)

RECURSIVE SdFixCollisions(_, _, _, _, _, _)
\* _fixCollisions scanning payline p from position i; the replacement is drawn from this.rng
SdFixCollisions(grid, rng, p, i, consecutiveCount, lastSymbol) ==
  IF p >= Len(config.paylines) THEN {[grid |-> grid, rng |-> rng]}
  ELSE IF i > Len(Payline(p)) THEN SdFixCollisions(grid, rng, p + 1, 1, 1, NoSymbol)
  ELSE LET currentSymbol == grid[Payline(p)[i]]
           others == SelectSeq(LowMidSymbols, LAMBDA sym : sym.id # currentSymbol)
       IN  IF currentSymbol = lastSymbol
           THEN IF consecutiveCount + 1 >= 3 /\ others # <<>>
                THEN UNION { LET chosen == others[FloorTimes(d.value, Len(others)) + 1].id
                             IN  SdFixCollisions([grid EXCEPT ![Payline(p)[i]] = chosen],
                                                 d.rng, p, i + 1, 1, chosen) :
                             d \in random(rng) }
                ELSE SdFixCollisions(grid, rng, p, i + 1, consecutiveCount + 1, lastSymbol)
           ELSE SdFixCollisions(grid, rng, p, i + 1, 1, currentSymbol)

RECURSIVE SdResolveLossFrom(_, _)
\* _resolveLoss from iteration attempt on
SdResolveLossFrom(rng, attempt) ==
  UNION { IF attempt >= MaxGridRetries
          THEN { [grid |-> f.grid, rng |-> f.rng, retries |-> attempt] :
                   f \in SdFixCollisions(g.grid, g.rng, 0, 1, 1, NoSymbol) }
          ELSE IF ValidateGrid(g.grid, NoLine)
               THEN {[grid |-> g.grid, rng |-> g.rng, retries |-> attempt]}
               ELSE SdResolveLossFrom(g.rng, attempt + 1) :
          g \in SdGenerateLossGrid(rng) }

SdResolveLoss(rng) ==
  { [patternResult |-> [grid |-> f.grid, winLine |-> NoLine, patternSource |-> "NONE",
                        winConditionType |-> "NONE"],
     rng |-> f.rng, retries |-> f.retries] : f \in SdResolveLossFrom(rng, 0) }

\* the base grid of resolve(outcome, context): anchors from the pattern stream, every
\* filler from rng
SdResolveBase(o, context, rng) ==
  IF o.type = "WIN"
  THEN UNION { SdResolveFromAnchors(generatedInfo, rng) :
               generatedInfo \in SdGenerate(o.winCondition, ResolverContext(context)) }
  ELSE SdResolveLoss(rng)

\* the seed string of _deriveVisualSeed:
\* mathSeed or 'default' : spinIndex : outcomeId : VISUAL : patchVersion
VisualSeedString(context) ==
  (IF Truthy(context.mathSeed) THEN SeedToString(context.mathSeed) ELSE CharCodes["default"])
  \o CharCodes[":"] \o DecimalDigits(context.spinIndex) \o CharCodes[":"]
  \o CharCodes[context.outcomeId] \o CharCodes[":"] \o CharCodes["VISUAL"] \o CharCodes[":"]
  \o CharCodes[config.visualConfig.patchVersion]

\* _deriveVisualSeed: its own hash loop over its own seed string
deriveVisualSeed(context) == JsNumber(AbsOrOne(HashChars(VisualSeedString(context), U32(0, 0))))

\* _improveVisualDistribution: every cell outside protectedCells is redrawn from visualRng
SdImproveVisualDistribution(grid, protectedCells, forbiddenSymbols, visualRng) ==
  LET filtered == SelectSeq(config.symbols, LAMBDA sym : sym.id \notin forbiddenSymbols)
      candidateSymbols == IF filtered = <<>> THEN config.symbols ELSE filtered
      allowed(symbols) == SelectSeq(symbols, LAMBDA sym : sym.type \notin forbiddenSymbolsInVisual)
      symbols == IF allowed(candidateSymbols) = <<>> THEN allowed(config.symbols)
                 ELSE allowed(candidateSymbols)
  IN  FillOpenCells(grid, protectedCells, symbols, VisualWeights, visualRng)

\* Phase 2 and its repetitions in Phase 3
SdGeneralOptimization(grid, o, winLine, protectedCells, lossForOthers, visualRng) ==
  IF o.type = "WIN"
  THEN SdImproveVisualDistribution(grid, WinProtectedCells(protectedCells, o, winLine),
                                   IF o.winConfig.present THEN {o.winConfig.symbolId} ELSE {},
                                   visualRng)
  ELSE IF o.type = "LOSS" \/ lossForOthers
       THEN SdImproveVisualDistribution(grid, {}, {}, visualRng)
       ELSE {[grid |-> grid, rng |-> visualRng]}

RECURSIVE SdSafetyLoop(_, _, _, _, _, _, _)
\* Phase 3 at iteration retry on the candidate processedGrid
SdSafetyLoop(processedGrid, visualRng, baseGrid, o, expectedWinLine, protectedCells, retry) ==
  IF retry >= MaxRetries THEN {Fallback(baseGrid)}
  ELSE IF /\ ~CheckForbiddenSymbols(processedGrid, o, expectedWinLine)
          /\ ValidateSafety(processedGrid, o, expectedWinLine)
       THEN {[grid |-> processedGrid, visualAttemptsUsed |-> retry + 1,
              returnedAt |-> "SUCCESS"]}
       ELSE UNION { SdSafetyLoop(c.grid, c.rng, baseGrid, o, expectedWinLine, protectedCells,
                                 retry + 1) :
                    c \in SdGeneralOptimization(processedGrid, o, expectedWinLine,
                                                protectedCells, TRUE, visualRng) }

\* applyConstraints on a design file with tease disabled and no near-miss outcome:
\* shouldTease returns before its roll, Phase 1 leaves the grid, and every draw of the
\* call is a draw of the visual stream created from the derived visual seed
SdApplyConstraints(grid, o, events, context, legacyWinLine) ==
  IF ~config.visualConfig.enabled
  THEN {[grid |-> grid, telemetry |-> InitialTelemetry, returnedAt |-> "DISABLED"]}
  ELSE
    LET protectedCells == DeriveProtectedCells(events, legacyWinLine, o)
        winLine == WinLineOf(events, legacyWinLine)
        visualRng == NewRNG(deriveVisualSeed(context))
        telemetry(r) ==
          FinalizeTelemetry(
            [visualRequestedType |-> "NONE", visualAppliedType |-> "NONE",
             visualApplied |-> FALSE, visualAttemptsUsed |-> r.visualAttemptsUsed,
             visualGuardFailReason |-> IF r.returnedAt = "SUCCESS" THEN "" ELSE "MAX_RETRIES",
             visualGuardFailDetail |-> IF r.returnedAt = "SUCCESS" THEN "" ELSE MaxRetriesDetail,
             teaseEligible |-> FALSE, teaseBlockedBy |-> "NOT_ELIGIBLE"])
    IN  UNION { { [grid |-> r.grid, telemetry |-> telemetry(r), returnedAt |-> r.returnedAt] :
                    r \in SdSafetyLoop(c.grid, c.rng, grid, o, winLine, protectedCells, 0) } :
                c \in SdGeneralOptimization(grid, o, winLine, protectedCells, FALSE,
                                            visualRng) }

(***************************************************************************)
(* simulate() run twice on the same arguments, at the level of single      *)
(* draws (the determinism harness: the spin log of the first run is kept   *)
(* and the second run starts from the same design file and seed            *)
(* arguments).  The seeded design files have no FEATURE outcome, so every  *)
(* round is a BASE round.                                                  *)
(***************************************************************************)
SdRounds == 2

\* customSeed as the CLI passes it (an integer or null) and config.seed of the design file
CustomSeeds == {JsNull, JsNumber(U32(0, 0)), JsNumber(U32(0, 7))}
ConfigSeeds == {JsUndefined, JsNumber(U32(0, 0)), JsNumber(U32(0, 7))}

\* const mathSeed = customSeed !== null ? String(customSeed) : (config.seed || 'default')
MathSeedOf(customSeed, configSeed) ==
  IF customSeed.type # "null" THEN JsString(SeedToString(customSeed))
  ELSE IF Truthy(configSeed) THEN configSeed
  ELSE JsString(CharCodes["default"])

\* the context object simulate() builds for resolve() and for applyConstraints()
SdContext == [spinIndex |-> sim.globalSpinIndex, mathSeed |-> sim.mathSeed,
              outcomeId |-> sim.outcome.id]

InitSeeded ==
  /\ configPath \in SeededConfigPaths
  /\ config = LoadConfig(configPath)
  /\ RoundInit
  /\ seedArgs \in [customSeed : CustomSeeds, configSeed : ConfigSeeds]
  /\ runNo = 1
  /\ firstRun = <<>>
  /\ sim = [pc |-> "start"]

\* simulate() up to the loop: the math seed, the math stream and the counters
SdStart ==
  /\ sim.pc = "start"
  /\ LET mathSeed == MathSeedOf(seedArgs.customSeed, seedArgs.configSeed)
     IN  sim' = [pc |-> "loop", mathSeed |-> mathSeed, rng |-> NewRNG(mathSeed),
                 globalSpinIndex |-> 0, baseSpins |-> 0, outcome |-> NoOutcome,
                 patternResult |-> NoPatternResult, winEvents |-> <<>>,
                 validationResult |-> NoValidation, drawsBefore |-> 0, gridRetries |-> 0,
                 streams |-> {}, baseGameWin |-> 0, spinLog |-> <<>>]
  /\ UNCHANGED <<roundVars, seedArgs, runNo, firstRun>>

\* loop head, check-in and selectOutcome(rng, outcomeTable, currentState)
SdSelectOutcome ==
  /\ sim.pc = "loop"
  /\ sim.baseSpins < SdRounds
  /\ \E s \in weightedSelect(sim.rng, config.outcomeTables["BASE"]) :
       sim' = [sim EXCEPT !.pc = "resolve", !.globalSpinIndex = @ + 1, !.baseSpins = @ + 1,
                          !.outcome = s.outcome, !.drawsBefore = sim.rng.draws,
                          !.rng = s.rng, !.streams = {}, !.gridRetries = 0]
  /\ UNCHANGED <<roundVars, seedArgs, runNo, firstRun>>

\* baseResolver.resolve(outcome, context) up to the base grid; the resolver was built on
\* the math stream rng (part_001: new PatternResolver(..., rng, visualConfig))
SdResolveGrid ==
  /\ sim.pc = "resolve"
  /\ \E r \in SdResolveBase(sim.outcome, SdContext, sim.rng) :
       sim' = [sim EXCEPT !.pc = "resolveVisual",
                          !.patternResult = WithTelemetry(r.patternResult, InitialTelemetry),
                          !.rng = r.rng, !.gridRetries = r.retries,
                          !.streams = IF sim.outcome.type = "WIN"
                                      THEN {[kind |-> "PATTERN",
                                             seed |-> derivePatternSeed(ResolverContext(SdContext))]}
                                      ELSE {}]
  /\ UNCHANGED <<roundVars, seedArgs, runNo, firstRun>>

\* the rest of resolve(): the resolver's own call of the visual engine (no events, no
\* legacy line)
SdResolverVisual ==
  /\ sim.pc = "resolveVisual"
  /\ \E v \in SdApplyConstraints(sim.patternResult.grid, sim.outcome, <<>>, SdContext, NoLine) :
       sim' = [sim EXCEPT !.pc = "evaluate",
                          !.patternResult = WithTelemetry([sim.patternResult EXCEPT
                                                             !.grid = v.grid], v.telemetry),
                          !.streams = IF config.visualConfig.enabled
                                      THEN @ \cup {[kind |-> "VISUAL",
                                                    seed |-> deriveVisualSeed(SdContext)]}
                                      ELSE @]
  /\ UNCHANGED <<roundVars, seedArgs, runNo, firstRun>>

\* baseEvaluator.evaluate and the wiring of winEvents[0].winAmount
SdEvaluateGrid ==
  /\ sim.pc = "evaluate"
  /\ sim' = [sim EXCEPT !.pc = "validate",
                        !.winEvents = WireWinAmount(sim.outcome, config.baseBet,
                                                    Evaluate(sim.patternResult.grid))]
  /\ UNCHANGED <<roundVars, seedArgs, runNo, firstRun>>

\* validateStrict; a throw ends the run
SdValidate ==
  /\ sim.pc = "validate"
  /\ LET v == ValidateStrict(sim.outcome, config.baseBet, sim.winEvents)
     IN  sim' = [sim EXCEPT !.pc = IF v.thrown THEN "aborted" ELSE "visual",
                            !.validationResult = v]
  /\ UNCHANGED <<roundVars, seedArgs, runNo, firstRun>>

\* the visual call of simulate(), with winEvents and the legacy line
SdApplyVisual ==
  /\ sim.pc = "visual"
  /\ \E v \in SdApplyConstraints(sim.patternResult.grid, sim.outcome, sim.winEvents,
                                 SdContext, sim.patternResult.winLine) :
       sim' = [sim EXCEPT !.pc = "transition",
                          !.patternResult = IF config.visualConfig.enabled
                                            THEN WithTelemetry([sim.patternResult EXCEPT
                                                                  !.grid = v.grid], v.telemetry)
                                            ELSE @,
                          !.streams = IF config.visualConfig.enabled
                                      THEN @ \cup {[kind |-> "VISUAL",
                                                    seed |-> deriveVisualSeed(SdContext)]}
                                      ELSE @]
  /\ UNCHANGED <<roundVars, seedArgs, runNo, firstRun>>

\* win accumulation and spinLog.push of the round
SdTransition ==
  /\ sim.pc = "transition"
  /\ sim' = [sim EXCEPT !.pc = "loop",
                        !.baseGameWin = @ + sim.validationResult.evaluatedWinAmount,
                        !.spinLog = Append(@, [outcomeId |-> sim.outcome.id,
                                               grid |-> sim.patternResult.grid,
                                               winEvents |-> sim.winEvents,
                                               telemetry |-> sim.patternResult.visualTelemetry,
                                               winAmount |-> sim.validationResult.evaluatedWinAmount])]
  /\ UNCHANGED <<roundVars, seedArgs, runNo, firstRun>>

\* what a finished or aborted run leaves to compare
RunRecord == [spinLog |-> sim.spinLog, ended |-> IF sim.pc = "aborted" THEN "thrown" ELSE "returned"]

\* simulate() returns or throws; after the first run the harness keeps its spin log and
\* calls simulate() again with the same arguments
SdFinish ==
  /\ \/ sim.pc = "loop" /\ sim.baseSpins >= SdRounds
     \/ sim.pc = "aborted"
  /\ IF runNo = 1
     THEN /\ firstRun' = RunRecord
          /\ runNo' = 2
          /\ sim' = [pc |-> "start"]
     ELSE /\ runNo = 2
          /\ runNo' = 3
          /\ sim' = [pc |-> "compared", secondRun |-> RunRecord]
          /\ UNCHANGED firstRun
  /\ UNCHANGED <<roundVars, seedArgs>>

NextSeeded ==
  \/ SdStart
  \/ SdSelectOutcome
  \/ SdResolveGrid
  \/ SdResolverVisual
  \/ SdEvaluateGrid
  \/ SdValidate
  \/ SdApplyVisual
  \/ SdTransition
  \/ SdFinish

SpecSeeded == InitSeeded /\ [][NextSeeded]_vars

(***************************************************************************)
(* The retry loops of the resolver's WIN paths, one attempt per step:      *)
(* _resolveFromAnchors (GENERATED outcomes) and _resolveWin (LEGACY        *)
(* outcomes).  The call under way is kept in sim: the method, the loop     *)
(* index retry of every _resolveWin frame on the call stack (innermost     *)
(* last), the number of fills made so far, and the grid in hand.           *)
(***************************************************************************)
\* cap on the fills of one call followed by the model
MaxAttempts == 13

\* the WIN outcome the calls are made for
RlOutcome == config.outcomeTables["BASE"][2]

\* step 3 of _resolveWin: matchCount cells of the selected payline, from its start
ResolveWinAnchors(o, selectedPaylineIndex) ==
  [cell \in LinePrefix(selectedPaylineIndex, o.winConfig.matchCount) |-> o.winConfig.symbolId]

InitLoops ==
  /\ configPath = "line_plain"
  /\ config = LoadConfig(configPath)
  /\ RoundInit
  /\ seedArgs = NoSeedArgs
  /\ runNo = 0
  /\ firstRun = <<>>
  /\ sim = [pc |-> "idle", method |-> "NONE", stack |-> <<>>, retry |-> 0, attempts |-> 0,
            grid |-> EmptyGrid, winLine |-> NoLine, exhausted |-> FALSE]

\* resolve() dispatches a LEGACY outcome to _resolveWin
RlCallResolveWin ==
  /\ sim.pc = "idle"
  /\ sim' = [sim EXCEPT !.pc = "enter", !.method = "_resolveWin"]
  /\ UNCHANGED <<roundVars, seedArgs, runNo, firstRun>>

\* steps 1-5 of one call of _resolveWin: a payline, the fill, the validation; an invalid
\* grid enters the retry loop, whose body starts with a nested call of _resolveWin
RlResolveWinBody ==
  /\ sim.pc = "enter"
  /\ sim.attempts < MaxAttempts
  /\ \E selectedPaylineIndex \in PaylineIndexes :
       \E grid \in FilledGrids(ResolveWinAnchors(RlOutcome, selectedPaylineIndex)) :
         sim' = IF ValidateGrid(grid, selectedPaylineIndex)
                THEN [sim EXCEPT !.pc = "return", !.attempts = @ + 1, !.grid = grid,
                                 !.winLine = selectedPaylineIndex]
                ELSE [sim EXCEPT !.pc = "enter", !.attempts = @ + 1, !.grid = grid,
                                 !.winLine = selectedPaylineIndex,
                                 !.stack = Append(@, 0)]
  /\ UNCHANGED <<roundVars, seedArgs, runNo, firstRun>>

\* a call of _resolveWin returns its grid: to resolve(), or to the retry loop of the
\* calling frame, which returns it if valid, calls again while retry < 10, else throws
RlResolveWinReturn ==
  /\ sim.pc = "return"
  /\ LET depth == Len(sim.stack)
         caller == SubSeq(sim.stack, 1, depth - 1)
     IN  sim' = IF depth = 0 THEN [sim EXCEPT !.pc = "done"]
                ELSE IF ValidateGrid(sim.grid, sim.winLine)
                     THEN [sim EXCEPT !.stack = caller]
                     ELSE IF sim.stack[depth] + 1 < MaxGridRetries
                          THEN [sim EXCEPT !.pc = "enter",
                                           !.stack = Append(caller, sim.stack[depth] + 1)]
                          ELSE [sim EXCEPT !.pc = "thrown", !.stack = caller]
  /\ UNCHANGED <<roundVars, seedArgs, runNo, firstRun>>

\* resolve() dispatches a GENERATED outcome to _resolveFromAnchors: anchors, first fill
\* and first validation
RlCallResolveFromAnchors ==
  /\ sim.pc = "idle"
  /\ \E generatedInfo \in Generate(RlOutcome.winCondition) :
       \E grid \in FilledGrids(generatedInfo.anchors) :
         sim' = [sim EXCEPT !.pc = IF ValidateGrid(grid, ExpectedWinLine(generatedInfo))
                                   THEN "done" ELSE "refill",
                            !.method = "_resolveFromAnchors", !.attempts = 1,
                            !.grid = grid, !.winLine = generatedInfo.generatedWinLine]
  /\ UNCHANGED <<roundVars, seedArgs, runNo, firstRun>>

\* one iteration of the retry loop of _resolveFromAnchors: refill, validate, break or go
\* on; after the last iteration the grid in hand is returned as it is
RlRefill ==
  /\ sim.pc = "refill"
  /\ sim.retry < MaxGridRetries
  /\ \E grid \in FilledGrids((CHOOSE generatedInfo \in Generate(RlOutcome.winCondition) :
                                 generatedInfo.generatedWinLine = sim.winLine).anchors) :
       LET valid == ValidateGrid(grid, sim.winLine)
       IN  sim' = [sim EXCEPT !.grid = grid, !.attempts = @ + 1, !.retry = @ + 1,
                              !.pc = IF valid \/ sim.retry + 1 >= MaxGridRetries
                                     THEN "done" ELSE "refill",
                              !.exhausted = ~valid /\ sim.retry + 1 >= MaxGridRetries]
  /\ UNCHANGED <<roundVars, seedArgs, runNo, firstRun>>

NextLoops ==
  \/ RlCallResolveWin
  \/ RlResolveWinBody
  \/ RlResolveWinReturn
  \/ RlCallResolveFromAnchors
  \/ RlRefill

SpecLoops == InitLoops /\ [][NextLoops]_vars

(***************************************************************************)
(* The Anchor Generator on its own: generate() applied to LINE conditions  *)
(* drawn from a bounded set, on the 2x3 design.                            *)
(***************************************************************************)
AgEligiblePaylines ==
  { EligibleAny,
    [kind |-> "ARRAY", indexes |-> <<1>>],
    [kind |-> "ARRAY", indexes |-> <<0, 2>>],
    [kind |-> "ARRAY", indexes |-> <<>>],
    [kind |-> "INDEX", indexes |-> <<1>>],
    [kind |-> "INDEX", indexes |-> <<3>>] }

AgWinConditions ==
  { [type |-> "LINE", symbolId |-> symbolId, count |-> matchCount,
     payDirection |-> payDirection, eligiblePaylines |-> eligiblePaylines] :
      symbolId \in {"L1", "L2", "H1"}, matchCount \in 2..3,
      payDirection \in {"LTR", "RTL"}, eligiblePaylines \in AgEligiblePaylines }

NoGeneratedInfo ==
  [anchors |-> [cell \in {} |-> NoSymbol], generatedWinLine |-> NoLine,
   winConditionType |-> "NONE"]

InitAnchors ==
  /\ configPath = "line_plain"
  /\ config = LoadConfig(configPath)
  /\ RoundInit
  /\ seedArgs = NoSeedArgs
  /\ runNo = 0
  /\ firstRun = <<>>
  /\ sim \in { [pc |-> "idle", winCondition |-> winCondition,
                generatedInfo |-> NoGeneratedInfo] : winCondition \in AgWinConditions }

\* patternGenerator.generate(winCondition, context): the anchors, or an Error
AgGenerate ==
  /\ sim.pc = "idle"
  /\ IF Generate(sim.winCondition) = {}
     THEN sim' = [sim EXCEPT !.pc = "thrown"]
     ELSE \E generatedInfo \in Generate(sim.winCondition) :
            sim' = [sim EXCEPT !.pc = "generated", !.generatedInfo = generatedInfo]
  /\ UNCHANGED <<roundVars, seedArgs, runNo, firstRun>>

NextAnchors == AgGenerate

SpecAnchors == InitAnchors /\ [][NextAnchors]_vars

(***************************************************************************)
(***************************************************************************)
(* applyConstraints step by step: Phase 1, Phase 2, then the Phase 3 loop  *)
(* with one candidate grid per iteration.  The engine is called on bounded *)
(* inputs in the three ways its callers use: with the evaluated winEvents  *)
(* and the pattern's line (simulate), with neither (the resolver), and     *)
(* with the legacy line only.                                              *)
(***************************************************************************)
GridRows(top, bottom) ==
  [cell \in Cells |-> IF cell[1] = 0 THEN top[cell[2] + 1] ELSE bottom[cell[2] + 1]]

\* the last symbol of the design: H1 on the line designs, the wild W1 otherwise
LastSymbolId == config.symbols[Len(config.symbols)].id

VeBottomRows == { <<"L2", LastSymbolId, "L2">>, <<"L2", "L2", "L1">> }

NearMissLossOutcome == [LossOutcome("NEAR_MISS_LOSS") EXCEPT !.nearMissId = TRUE]

VeCalls(o, grid) ==
  IF o.type = "WIN" /\ o.winConfig.present
  THEN { [events |-> Evaluate(grid), legacyWinLine |-> 0],
         [events |-> <<>>, legacyWinLine |-> NoLine],
         [events |-> <<>>, legacyWinLine |-> 0] }
  ELSE IF o.type = "WIN"
  THEN { [events |-> Evaluate(grid), legacyWinLine |-> 0],
         [events |-> <<>>, legacyWinLine |-> 0] }
  ELSE { [events |-> <<>>, legacyWinLine |-> NoLine] }

\* the near-miss loss runs on the line design, the plain loss on the design with a wild
VeOutcomes ==
  { IF LastSymbolId = "W1" THEN LossOutcome("LOSS") ELSE NearMissLossOutcome,
    config.outcomeTables.BASE[2], config.outcomeTables.FREE[2] }

VeGridsOf(o) ==
  IF o.type = "WIN"
  THEN { GridRows(<<o.winCondition.symbolId, o.winCondition.symbolId, o.winCondition.symbolId>>,
                  bottom) : bottom \in VeBottomRows }
  ELSE { GridRows(<<"L1", "L2", "L1">>, <<"L2", LastSymbolId, "L2">>) }

VeIdle(o, grid, call, roll) ==
  [pc |-> "idle", outcome |-> o, baseGrid |-> grid, events |-> call.events,
   legacyWinLine |-> call.legacyWinLine, roll |-> roll,
   protectedCells |-> {}, requestedType |-> "NONE", phase1Grid |-> grid,
   processedGrid |-> grid, retry |-> 0, returnedAt |-> "NONE",
   contextValid |-> TRUE, telemetry |-> InitialTelemetry]

InitEngine ==
  /\ configPath \in {"line_visual", "any_position_visual", "line_plain"}
  /\ config = LoadConfig(configPath)
  /\ RoundInit
  /\ seedArgs = NoSeedArgs
  /\ runNo = 0
  /\ firstRun = <<>>
  /\ sim \in UNION { UNION { UNION { { [VeIdle(o, grid, call, roll) EXCEPT
                                           !.contextValid = contextValid] :
                                         roll \in TeaseRolls(o), contextValid \in BOOLEAN } :
                                     call \in VeCalls(o, grid) } :
                             grid \in VeGridsOf(o) } :
                     o \in VeOutcomes }

VeWinLine == WinLineOf(sim.events, sim.legacyWinLine)

\* the two early returns of applyConstraints (lines 115-125): the layer is switched
\* off, or _ensureContext finds no usable context
VeReturnUnchanged ==
  /\ sim.pc = "idle"
  /\ ~config.visualConfig.enabled \/ ~sim.contextValid
  /\ sim' = [sim EXCEPT !.pc = "returned",
                         !.returnedAt = IF ~config.visualConfig.enabled THEN "DISABLED"
                                        ELSE "INVALID_CONTEXT"]
  /\ UNCHANGED <<roundVars, seedArgs, runNo, firstRun>>

\* applyConstraints up to the end of Phase 1 (lines 137-180)
VePhase1 ==
  /\ sim.pc = "idle"
  /\ config.visualConfig.enabled /\ sim.contextValid
  /\ LET protectedCells == DeriveProtectedCells(sim.events, sim.legacyWinLine, sim.outcome)
         teaseCheck == ShouldTease(sim.outcome, sim.roll, 0, visualState)
     IN  \E grid \in (IF teaseCheck.requested
                      THEN ApplyTease(sim.baseGrid, sim.outcome, VeWinLine, protectedCells)
                      ELSE IF IsNearMiss(sim.outcome) THEN ApplyNearMissLinePay(sim.baseGrid)
                      ELSE {sim.baseGrid}) :
           sim' = [sim EXCEPT !.pc = "phase1",
                              !.protectedCells = protectedCells,
                              !.requestedType = IF teaseCheck.requested THEN "TEASE"
                                                ELSE IF IsNearMiss(sim.outcome) THEN "NEAR_MISS"
                                                ELSE "NONE",
                              !.phase1Grid = grid,
                              !.processedGrid = grid,
                              !.telemetry =
                                 [@ EXCEPT !.teaseEligible = teaseCheck.eligible,
                                           !.teaseBlockedBy = teaseCheck.blockedBy,
                                           !.visualRequestedType =
                                              IF teaseCheck.requested THEN "TEASE"
                                              ELSE IF IsNearMiss(sim.outcome) THEN "NEAR_MISS"
                                              ELSE "NONE"]]
  /\ UNCHANGED <<roundVars, seedArgs, runNo, firstRun>>

\* Phase 2 on the grid Phase 1 left (lines 186-194)
VePhase2 ==
  /\ sim.pc = "phase1"
  /\ \E grid \in GeneralOptimization({sim.processedGrid}, sim.outcome, VeWinLine,
                                     sim.protectedCells, FALSE) :
       sim' = [sim EXCEPT !.pc = "scan", !.processedGrid = grid]
  /\ UNCHANGED <<roundVars, seedArgs, runNo, firstRun>>

\* one iteration of the Phase 3 loop (lines 210-260) and the return after it (262-277)
VeScan ==
  /\ sim.pc = "scan"
  /\ IF /\ ~CheckForbiddenSymbols(sim.processedGrid, sim.outcome, VeWinLine)
        /\ ValidateSafety(sim.processedGrid, sim.outcome, VeWinLine)
     THEN sim' = [sim EXCEPT !.pc = "returned", !.returnedAt = "SUCCESS",
                             !.telemetry =
                                FinalizeTelemetry(
                                  [@ EXCEPT !.visualAttemptsUsed = sim.retry + 1,
                                            !.visualAppliedType = sim.telemetry.visualRequestedType,
                                            !.visualGuardFailReason = "",
                                            !.visualGuardFailDetail = ""])]
     ELSE IF sim.retry + 1 < MaxRetries
          THEN \E grid \in GeneralOptimization({sim.processedGrid}, sim.outcome, VeWinLine,
                                               sim.protectedCells, TRUE) :
                 sim' = [sim EXCEPT !.retry = @ + 1, !.processedGrid = grid,
                                    !.telemetry.visualAttemptsUsed = sim.retry + 1]
          ELSE sim' = [sim EXCEPT !.pc = "returned", !.returnedAt = "FALLBACK",
                                  !.processedGrid = Fallback(sim.baseGrid).grid,
                                  !.telemetry =
                                     FinalizeTelemetry(
                                       [@ EXCEPT !.visualAttemptsUsed = sim.retry + 1,
                                                 !.visualAppliedType = "NONE",
                                                 !.visualGuardFailReason = "MAX_RETRIES",
                                                 !.visualGuardFailDetail = MaxRetriesDetail])]
  /\ UNCHANGED <<roundVars, seedArgs, runNo, firstRun>>

NextEngine == VeReturnUnchanged \/ VePhase1 \/ VePhase2 \/ VeScan

SpecEngine == InitEngine /\ [][NextEngine]_vars

(***************************************************************************)
(* The tease gates over consecutive rounds.  A caller runs rounds with     *)
(* spinIndex 0, 1, ...; in each round it calls applyConstraints once or    *)
(* twice (the v1.5 loop calls it from the resolver and again itself) with  *)
(* the round's outcome and visual seed, so both calls see the same roll.   *)
(* The caller either owns a visualState object and passes it in every      *)
(* context, or passes none (the v1.2 loop).                                *)
(***************************************************************************)
NoVisualState ==
  [supplied |-> FALSE, lastTeaseSpinIndex |-> NoSpin, hasWindow |-> FALSE,
   windowStart |-> 0, windowCount |-> 0]

TsOutcomes == { config.outcomeTables.BASE[1], config.outcomeTables.BASE[2],
                config.outcomeTables.FREE[2] }

TsRounds == { [outcome |-> o, roll |-> roll] : o \in TsOutcomes, roll \in {"NONE", "BELOW", "ABOVE"} }

\* the rounds whose roll is one the outcome's first draw can give
TsPossibleRounds == { round \in TsRounds : round.roll \in TeaseRolls(round.outcome) }

\* the caller at the start of round firstSpinIndex, no tease triggered so far
TsIdle(firstSpinIndex, round, supplied) ==
  [pc |-> "idle", firstSpinIndex |-> firstSpinIndex, spinIndex |-> firstSpinIndex, calls |-> 0,
   outcome |-> round.outcome, roll |-> round.roll,
   visualState |-> IF supplied THEN visualState ELSE NoVisualState,
   history |-> <<>>, historyBefore |-> <<>>,
   teaseEligible |-> FALSE, teaseBlockedBy |-> "NONE",
   visualRequestedType |-> "NONE"]

InitTease ==
  /\ configPath \in TeaseConfigPaths
  /\ config = LoadConfig(configPath)
  /\ RoundInit
  /\ seedArgs = NoSeedArgs
  /\ runNo = 0
  /\ firstRun = <<>>
  /\ sim \in { TsIdle(0, round, supplied) : round \in TsPossibleRounds, supplied \in BOOLEAN }

\* one call of applyConstraints, up to the end of Phase 1 (lines 144-180)
TsApplyConstraints ==
  /\ sim.calls < 2
  /\ LET teaseCheck == ShouldTease(sim.outcome, sim.roll, sim.spinIndex, sim.visualState)
     IN  sim' = [sim EXCEPT
                   !.pc = "called",
                   !.calls = @ + 1,
                   !.visualState = TeaseStateAfter(teaseCheck, sim.spinIndex),
                   !.historyBefore = sim.history,
                   !.history = IF teaseCheck.requested THEN Append(@, sim.spinIndex) ELSE @,
                   !.teaseEligible = teaseCheck.eligible,
                   !.teaseBlockedBy = teaseCheck.blockedBy,
                   !.visualRequestedType = IF teaseCheck.requested THEN "TEASE"
                                           ELSE IF IsNearMiss(sim.outcome) THEN "NEAR_MISS"
                                           ELSE "NONE"]
  /\ UNCHANGED <<roundVars, seedArgs, runNo, firstRun>>

\* the caller's loop moves on to the next round
TsNextRound ==
  /\ sim.pc = "called"
  /\ sim.spinIndex < sim.firstSpinIndex + MaxTeaseSpins
  /\ \E round \in TsPossibleRounds :
       sim' = [sim EXCEPT !.pc = "idle", !.spinIndex = @ + 1, !.calls = 0,
                          !.outcome = round.outcome, !.roll = round.roll]
  /\ UNCHANGED <<roundVars, seedArgs, runNo, firstRun>>

NextTease == TsApplyConstraints \/ TsNextRound

SpecTease == InitTease /\ [][NextTease]_vars

\* The same caller observed from round 98 on, after 98 rounds without a tease, on the
\* design with a rate limit and no cooldown: the rounds around the end of the first
\* window of 100.
TsWindowFirstSpin == 98

InitTeaseWindow ==
  /\ configPath = "tease_rate_limited"
  /\ config = LoadConfig(configPath)
  /\ RoundInit
  /\ seedArgs = NoSeedArgs
  /\ runNo = 0
  /\ firstRun = <<>>
  /\ sim \in { TsIdle(TsWindowFirstSpin, round, TRUE) : round \in TsPossibleRounds }

SpecTeaseWindow == InitTeaseWindow /\ [][NextTease]_vars

(* Properties of the round pipeline.                                       *)
(***************************************************************************)

\* C1: every grid the Grid Resolver returns has no payline, other than the round's
\* intended winning line, on which 3 or more consecutive cells hold the same symbol
\* (no payline at all when no line is intended to win).
C1_ResolverGridsHaveNoAccidentalRun ==
  LET grid == patternResult.grid
      run(p) == \E i \in 1..(Len(Payline(p)) - 2) :
                  /\ grid[Payline(p)[i]] = grid[Payline(p)[i + 1]]
                  /\ grid[Payline(p)[i + 1]] = grid[Payline(p)[i + 2]]
  IN  pc \in {"resolveVisual", "evaluate"} =>
        \A p \in PaylineIndexes : run(p) => p = patternResult.winLine

\* C2: in every round whose outcome has a positive expected payout the amount
\* evaluated from the grid's win events equals the expected amount, so strict
\* validation never finds a mismatch.
C2_PositivePayoutRoundsMatch ==
  (/\ pc \in {"visual", "transition", "aborted"}
   /\ (outcome.payoutX10 * config.baseBet + 5) \div 10 > 0)
    => validationResult.evaluatedWinAmount = (outcome.payoutX10 * config.baseBet + 5) \div 10

C4_MismatchAbortsRound ==
  [][/\ (/\ pc = "validate"
         /\ SumWinAmount(winEvents) # (outcome.payoutX10 * config.baseBet + 5) \div 10)
          => /\ pc' = "aborted"
             /\ error' = "Validation mismatch"
             /\ result' = result
             /\ lastSpin' = lastSpin
     /\ pc # "aborted"]_vars

\* a WIN round of payout 3 ended by the validator, its win not in the totals
C4_RoundAborted ==
  /\ pc = "aborted"
  /\ error = "Validation mismatch"
  /\ validationResult.expectedWinAmount = 3
  /\ validationResult.evaluatedWinAmount = 0
  /\ result.baseGameWin = 0

\* C5: a round that passed strict validation has a win event if its outcome is a WIN
\* and has none if its outcome is a LOSS.
C5_ValidatedRoundsAgreeWithOutcome ==
  pc \in {"visual", "transition"} =>
    /\ outcome.type = "WIN" => winEvents # <<>>
    /\ outcome.type = "LOSS" => winEvents = <<>>

\* C6: the visual layer does not alter the verified payout.  With the layer disabled
\* resolve() returns the grid the resolver built, so a round's validation result is
\* the same with the layer enabled only if the resolver's visual pass leaves the
\* validation result of the grid as it was.
C6_VisualPassKeepsValidation ==
  [][pc = "resolveVisual" =>
       ValidateStrict(outcome, config.baseBet,
                      WireWinAmount(outcome, config.baseBet, Evaluate(patternResult'.grid)))
         = ValidateStrict(outcome, config.baseBet,
                          WireWinAmount(outcome, config.baseBet, Evaluate(patternResult.grid)))]_vars

\* C7: on both calls of the visual engine every winning cell of a WIN round holds the
\* same symbol in the grid returned as in the grid passed in.
C7_WinningCellsKeptByEngine ==
  [][(pc \in {"resolveVisual", "visual"} /\ outcome.type = "WIN") =>
       LET events == IF pc = "visual" THEN winEvents ELSE Evaluate(patternResult.grid)
       IN  \A k \in 1..Len(events) : \A cell \in events[k].positions :
             patternResult'.grid[cell] = patternResult.grid[cell]]_vars

\* C8: a grid the visual engine returns either is the grid passed in, or has no run of
\* 3 or more identical symbols on a payline other than the intended one and no
\* forbidden symbol that was not already at that cell.
C8_ReturnedGridPassedSafetyScan ==
  [][(pc \in {"resolveVisual", "visual"}) =>
       LET before == patternResult.grid
           after == patternResult'.grid
           intended == WinLineOf(winEvents, patternResult.winLine)
           run(p) == \E i \in 1..(Len(Payline(p)) - 2) :
                       /\ after[Payline(p)[i]] = after[Payline(p)[i + 1]]
                       /\ after[Payline(p)[i + 1]] = after[Payline(p)[i + 2]]
       IN  (\/ after = before
            \/ /\ \A p \in PaylineIndexes : run(p) => p = intended
               /\ \A cell \in Cells :
                    after[cell] \in ForbiddenSymbolIds => after[cell] = before[cell])]_vars

\* a WIN round whose teased candidate was accepted on the second attempt
C8_AugmentedGridAccepted ==
  /\ pc = "transition"
  /\ outcome.type = "WIN"
  /\ visualCall.caller = "simulate"
  /\ visualCall.returnedAt = "SUCCESS"
  /\ visualCall.visualAttemptsUsed = 2
  /\ patternResult.visualTelemetry.visualAppliedType = "TEASE"

C10_EvaluateOncePerRound ==
  pc = "transition" => evaluateCalls = 1

\* C11: within a round the Visual Augmentation Engine runs only after strict
\* validation: while the round's grid is still to be evaluated or validated, no call
\* of the engine has been made in that round.
C11_EngineRunsAfterValidation ==
  pc \in {"evaluate", "validate"} => visualCall.returnedAt \in {"NONE", "DISABLED"}

C13_OnlyAbsentSeedFallsBack ==
  (sim.pc \notin {"start", "compared"} /\ sim.mathSeed = JsString(CharCodes["default"]))
    => (seedArgs.customSeed = JsNull /\ seedArgs.configSeed = JsUndefined)

\* C14: a run started without any seed is in legacy mode: its math stream draws from
\* Math.random() and is not seeded from a fixed default.
C14_UnseededRunIsLegacy ==
  (sim.pc \notin {"start", "compared"} /\ seedArgs = NoSeedArgs) => sim.rng.mode = "legacy"

\* C15: every derived stream created in a round (pattern stream, visual stream) is
\* seeded with the value of deriveSubSeed(kind, context) over the layout
\* kind|mathSeed|spinIndex|outcomeId|patchVersion, for the round's context and one of the
\* format versions in use.
C15_DerivedSeedsAreCanonical ==
  sim.pc \notin {"start", "compared"} =>
    \A stream \in sim.streams :
      \E patchVersion \in {"v1.5.0", "v1.4.patch"} :
        stream.seed = deriveSubSeed(stream.kind,
                                    [mathSeed |-> sim.mathSeed,
                                     spinIndex |-> sim.globalSpinIndex,
                                     outcomeId |-> sim.outcome.id,
                                     patchVersion |-> patchVersion])

\* C16: the math stream is advanced only by outcome selection: from the selection to the
\* end of the round it has made exactly one draw, whatever the resolver and the visual
\* engine did.
C16_MathStreamDrawsOncePerRound ==
  sim.pc \in {"resolve", "resolveVisual", "evaluate", "validate", "visual", "transition"}
    => sim.rng.draws - sim.drawsBefore = 1

(***************************************************************************)
(* Properties of the resolver's retry loops.                               *)
(***************************************************************************)
\* C17: when the accidental-win scan still rejects the grid after the last regeneration
\* retry, the resolver returns a grid whose offending run has been broken: the grid it
\* returns after exhausting its retries passes the scan.
C17_ExhaustedRetriesReturnBrokenRun ==
  (sim.pc = "done" /\ sim.exhausted) => ValidateGrid(sim.grid, sim.winLine)

\* C19: every retry loop of the resolver makes at most its fixed number of attempts, the
\* first fill and MaxGridRetries regenerations, before it exits
C19_RetryLoopsAreBounded ==
  sim.pc # "idle" => sim.attempts <= 1 + MaxGridRetries

C20_AtMostOneWinEvent ==
  /\ Len(winEvents) <= 1
  /\ patternResult.grid # EmptyGrid => Len(Evaluate(patternResult.grid)) <= 1

\* a grid on which both paylines pay has been evaluated to a single event
C20_TwoPayingLinesOneEvent ==
  /\ pc = "validate"
  /\ Cardinality({p \in PaylineIndexes :
                    EvaluateLinePay(patternResult.grid, Payline(p), p) # <<>>}) = 2
  /\ Len(winEvents) = 1
  /\ winEvents[1].paylineIndex = 0

\* whether payline p of the grid starts with three equal symbols of the design
LineRunFromFirstCell(grid, p) ==
  /\ Len(Payline(p)) >= 3
  /\ grid[Payline(p)[1]] = grid[Payline(p)[2]]
  /\ grid[Payline(p)[2]] = grid[Payline(p)[3]]
  /\ grid[Payline(p)[1]] \in SymbolIds

\* C21: the any-position rule is consulted only when no line paid: the events of a grid
\* are never of both rule types, and an ANY_POSITION event is reported only for a grid
\* on which no payline has a run from its first cell.
C21_LineExcludesAnyPosition ==
  patternResult.grid # EmptyGrid =>
    LET events == Evaluate(patternResult.grid)
    IN  /\ \A i, j \in 1..Len(events) : events[i].ruleType = events[j].ruleType
        /\ (\E i \in 1..Len(events) : events[i].ruleType = "ANY_POSITION")
             => ~ \E p \in PaylineIndexes : LineRunFromFirstCell(patternResult.grid, p)
        /\ \A i, j \in 1..Len(winEvents) : winEvents[i].ruleType = winEvents[j].ruleType

\* a grid holding three any-position symbols and a paying line was evaluated to the
\* LINE event alone
C21_LineWinsOverAnyPosition ==
  /\ pc = "validate"
  /\ Cardinality({cell \in Cells : patternResult.grid[cell] = "A1"}) >= 3
  /\ Len(winEvents) = 1
  /\ winEvents[1].ruleType = "LINE"

\* C22: when some payline has a run of three or more from its first cell, evaluate
\* reports a LINE event for the first such payline in configured order, covering that
\* line's run, and reports no later line.
C22_FirstQualifyingLineReported ==
  patternResult.grid # EmptyGrid =>
    \A p \in PaylineIndexes :
      (/\ LineRunFromFirstCell(patternResult.grid, p)
       /\ \A q \in PaylineIndexes : q < p => ~LineRunFromFirstCell(patternResult.grid, q))
        => LET events == Evaluate(patternResult.grid)
           IN  /\ Len(events) = 1
               /\ events[1].ruleType = "LINE"
               /\ events[1].paylineIndex = p
               /\ events[1].paidSymbolId = patternResult.grid[Payline(p)[1]]
               /\ events[1].positions = {Payline(p)[i] : i \in 1..events[1].matchCount}
               /\ events[1].matchCount >= 3

\* the first payline does not pay and the second does: the event is the second line's
C22_SecondLineReported ==
  /\ pc = "validate"
  /\ ~LineRunFromFirstCell(patternResult.grid, 0)
  /\ LineRunFromFirstCell(patternResult.grid, 1)
  /\ Len(winEvents) = 1
  /\ winEvents[1].paylineIndex = 1

(***************************************************************************)
(* Properties of the any-position runs.                                    *)
(***************************************************************************)
\* number of cells of the grid that hold the design's ANY_POSITION symbol
AnyPositionCount(grid) ==
  Cardinality({cell \in Cells : grid[cell] \in SymbolIdsOfType({"ANY_POSITION"})})

\* C23: on the grid a round produced, the number of any-position symbols is the win
\* condition's target count when the round's outcome is the triggering outcome and zero
\* when it is not.
C23_TargetCountFollowsTrigger ==
  (pc \in {"evaluate", "validate", "visual", "transition"})
    => AnyPositionCount(patternResult.grid) =
         IF outcome.winCondition.type = "ANY_POSITION" THEN outcome.winCondition.count ELSE 0

(***************************************************************************)
(* Properties of the Anchor Generator.                                     *)
(***************************************************************************)
\* C24: for a LINE condition the generator returns exactly matchCount anchors, all of
\* the condition's symbol, on the first matchCount positions of one eligible payline
\* counted in the configured pay direction (from the line's first cell for LTR, from
\* its last cell for RTL), and none beyond.
C24_LineAnchorsFollowCondition ==
  sim.pc = "generated" =>
    LET winCondition == sim.winCondition
        anchors == sim.generatedInfo.anchors
        payline == Payline(sim.generatedInfo.generatedWinLine)
        inDirection == IF winCondition.payDirection = "RTL"
                       THEN {payline[Len(payline) + 1 - i] : i \in 1..winCondition.count}
                       ELSE {payline[i] : i \in 1..winCondition.count}
    IN  /\ Cardinality(DOMAIN anchors) = winCondition.count
        /\ \A cell \in DOMAIN anchors : anchors[cell] = winCondition.symbolId
        /\ sim.generatedInfo.generatedWinLine \in SelectedPaylineIndexes(winCondition)
        /\ DOMAIN anchors = inDirection

(***************************************************************************)
(* Properties of the visual engine's phases.                               *)
(***************************************************************************)
\* C25: a failed Phase 3 scan re-runs Phase 2 only, and every cell that Phase 1 (tease
\* or near-miss pattern) changed holds in each retry candidate the symbol Phase 1 gave it.
C25_RetryKeepsPhase1Cells ==
  (sim.pc = "scan" /\ sim.retry >= 1) =>
    \A cell \in Cells :
      sim.phase1Grid[cell] # sim.baseGrid[cell] => sim.processedGrid[cell] = sim.phase1Grid[cell]

\* C26: in the grid the engine returns, a cell outside the protected winning cells holds
\* a wild, scatter or bonus symbol only if the grid passed in held that symbol there.
C26_NoForbiddenSymbolIntroduced ==
  sim.pc = "returned" =>
    \A cell \in Cells \ sim.protectedCells :
      sim.processedGrid[cell] \in SymbolIdsOfType({"WILD", "SCATTER", "BONUS"})
        => sim.processedGrid[cell] = sim.baseGrid[cell]

\* a call on a grid with a wild outside the protected cells returned an augmented grid
C26_WildRemovedByAugmentation ==
  /\ sim.pc = "returned"
  /\ sim.returnedAt = "SUCCESS"
  /\ \E cell \in Cells \ sim.protectedCells : sim.baseGrid[cell] = "W1"
  /\ \A cell \in Cells \ sim.protectedCells : sim.processedGrid[cell] # "W1"

\* C27: the protected cells are the positions listed by the first win event when one with
\* positions is passed; otherwise the first matchCount cells of the legacy line when a
\* line index is passed; otherwise none.  The grid's content plays no part.  (A call that
\* returns before the phases, engine disabled or context invalid, derives nothing.)
C27_ProtectedCellsByPriority ==
  (sim.pc # "idle" /\ sim.returnedAt \notin {"DISABLED", "INVALID_CONTEXT"}) =>
    sim.protectedCells =
      IF sim.events # <<>> /\ sim.events[1].positions # {}
      THEN sim.events[1].positions
      ELSE IF sim.legacyWinLine # NoLine
           THEN { Payline(sim.legacyWinLine)[i] :
                    i \in { j \in 1..Len(Payline(sim.legacyWinLine)) :
                              j <= sim.outcome.winConfig.matchCount } }
           ELSE {}

\* a grid showing a full line on payline 0 is passed with neither win events nor a line
\* index, and no cell is protected
C27_VisibleLineNotProtected ==
  /\ sim.pc = "scan"
  /\ sim.events = <<>>
  /\ sim.legacyWinLine = NoLine
  /\ LineRunFromFirstCell(sim.baseGrid, 0)
  /\ sim.protectedCells = {}

(***************************************************************************)
(* Properties of the tease gates.  The gates are stated on the call's      *)
(* inputs and on the rounds in which a tease was triggered so far, not on  *)
(* the state object the engine maintains.                                  *)
(***************************************************************************)
TsEligibilityPasses ==
  /\ config.visualConfig.tease.enabled
  /\ sim.outcome.type = "WIN"
  /\ sim.outcome.id \in config.visualConfig.tease.targetOutcomeIds

TsRollPasses == sim.roll = "BELOW"

TsCooldownPasses ==
  ~ /\ sim.visualState.supplied
    /\ config.visualConfig.tease.cooldownSpins > 0
    /\ sim.historyBefore # <<>>
    /\ sim.spinIndex - sim.historyBefore[Len(sim.historyBefore)]
         <= config.visualConfig.tease.cooldownSpins

\* every round so far lies in the last 100 spins
TsRateLimitPasses ==
  ~ /\ sim.visualState.supplied
    /\ config.visualConfig.tease.maxTriggersPer100Spins # NoLimit
    /\ Len(sim.historyBefore) >= config.visualConfig.tease.maxTriggersPer100Spins

\* C28: the gates are taken in the order eligibility, roll, cooldown, rate limit; a tease
\* is requested exactly when all four pass; otherwise blockedBy names the first gate that
\* failed and Phase 1 places no tease.
C28_FirstFailedGateReported ==
  sim.pc = "called" =>
    /\ sim.teaseBlockedBy =
         IF ~TsEligibilityPasses THEN "NOT_ELIGIBLE"
         ELSE IF ~TsRollPasses THEN "CHANCE_MISS"
         ELSE IF ~TsCooldownPasses THEN "COOLDOWN"
         ELSE IF ~TsRateLimitPasses THEN "RATE_LIMIT"
         ELSE "NONE"
    /\ (sim.visualRequestedType = "TEASE") = (sim.teaseBlockedBy = "NONE" /\ sim.teaseEligible)
    /\ (sim.history # sim.historyBefore) = (sim.visualRequestedType = "TEASE")

\* a call that both the cooldown and the rate limit would block reports COOLDOWN
C28_CooldownBeforeRateLimit ==
  /\ sim.pc = "called"
  /\ TsEligibilityPasses /\ TsRollPasses
  /\ ~TsCooldownPasses /\ ~TsRateLimitPasses
  /\ sim.teaseBlockedBy = "COOLDOWN"
  /\ sim.visualRequestedType = "NONE"

\* C29: when the caller passes no visualState, no call is blocked by COOLDOWN or
\* RATE_LIMIT, and a call's decision depends on its outcome and roll only, whatever
\* teases earlier calls triggered.
C29_NoThrottleWithoutState ==
  (sim.pc = "called" /\ ~sim.visualState.supplied) =>
    /\ sim.teaseBlockedBy \notin {"COOLDOWN", "RATE_LIMIT"}
    /\ (sim.visualRequestedType = "TEASE") = (TsEligibilityPasses /\ TsRollPasses)
    /\ sim.visualState = NoVisualState

\* without a visualState a tease is triggered in the round right after a tease, on a
\* design whose cooldown spans two rounds
C29_TeaseInsideCooldown ==
  /\ sim.pc = "called"
  /\ ~sim.visualState.supplied
  /\ config.visualConfig.tease.cooldownSpins = 2
  /\ Len(sim.history) >= 2
  /\ sim.history[Len(sim.history)] = sim.spinIndex
  /\ sim.history[Len(sim.history) - 1] = sim.spinIndex - 1

\* C30: with a visualState passed and cooldownSpins > 0, an otherwise passing call is
\* blocked with COOLDOWN whenever the round index minus the round index of the last tease
\* is at most cooldownSpins, and any two rounds with a triggered tease are more than
\* cooldownSpins rounds apart.
C30_TeasesApartByCooldown ==
  (sim.visualState.supplied /\ config.visualConfig.tease.cooldownSpins > 0) =>
    /\ (/\ sim.pc = "called" /\ TsEligibilityPasses /\ TsRollPasses
        /\ sim.historyBefore # <<>>
        /\ sim.spinIndex - sim.historyBefore[Len(sim.historyBefore)]
             <= config.visualConfig.tease.cooldownSpins)
         => sim.teaseBlockedBy = "COOLDOWN" /\ sim.visualRequestedType # "TEASE"
    /\ \A i, j \in 1..Len(sim.history) :
         i < j => sim.history[j] - sim.history[i] > config.visualConfig.tease.cooldownSpins

\* two teases were triggered under a cooldown of two rounds, the second as soon as allowed
C30_SecondTeaseAfterCooldown ==
  /\ sim.visualState.supplied
  /\ config.visualConfig.tease.cooldownSpins = 2
  /\ Len(sim.history) = 2
  /\ sim.history[2] - sim.history[1] = 3

\* C31: with a visualState passed and maxTriggersPer100Spins set, any 100 consecutive
\* rounds hold at most maxTriggersPer100Spins rounds with a triggered tease.  (All rounds
\* of a run explored here lie within 100 consecutive rounds.)
C31_RollingWindowRateLimit ==
  (sim.visualState.supplied /\ config.visualConfig.tease.maxTriggersPer100Spins # NoLimit) =>
    Cardinality({ sim.history[i] : i \in 1..Len(sim.history) })
      <= config.visualConfig.tease.maxTriggersPer100Spins

(***************************************************************************)
(* Properties of the telemetry the visual engine returns.                  *)
(***************************************************************************)
\* C32: on every return path (success, fallback after the retries, layer switched off,
\* unusable context) the returned visualApplied equals (visualAppliedType # NONE).
C32_AppliedFlagMatchesAppliedType ==
  sim.pc = "returned" =>
    sim.telemetry.visualApplied = (sim.telemetry.visualAppliedType # "NONE")

\* a call that returned an applied tease after a failed attempt
C32_TeaseAppliedAfterRetry ==
  /\ sim.pc = "returned"
  /\ sim.returnedAt = "SUCCESS"
  /\ sim.retry >= 1
  /\ sim.telemetry.visualAppliedType = "TEASE"
  /\ sim.telemetry.visualApplied

\* C33: in the returned telemetry the guard-failure reason and detail hold a value
\* exactly when a requested effect was rolled back (visualAppliedType NONE with
\* visualRequestedType not NONE); they are empty when an effect was applied, also after
\* failed attempts, and when nothing was requested.
C33_FailFieldsOnlyOnRollback ==
  sim.pc = "returned" =>
    LET rolledBack == /\ sim.telemetry.visualAppliedType = "NONE"
                      /\ sim.telemetry.visualRequestedType # "NONE"
    IN  /\ (sim.telemetry.visualGuardFailReason \notin {"", "null"}) = rolledBack
        /\ (sim.telemetry.visualGuardFailDetail \notin {"", "null"}) = rolledBack

\* the retries were used up with no effect requested, and the fail fields came back empty
C33_FallbackWithoutRequest ==
  /\ sim.pc = "returned"
  /\ sim.returnedAt = "FALLBACK"
  /\ sim.telemetry.visualRequestedType = "NONE"
  /\ sim.telemetry.visualGuardFailReason = ""
  /\ sim.telemetry.visualGuardFailDetail = ""

(***************************************************************************)
(* Properties of the free-game state machine.                              *)
(***************************************************************************)
\* C34: when a run terminates, the FREE rounds played number
\* (FEATURE triggers) x (configured freeSpinCount).
C34_FreeRoundsAreTriggersTimesCount ==
  pc = "done" => freeGameSpinsCount = result.triggerCount * config.freeSpinCount

\* C35: in every round whose expected win is positive, FREE as well as BASE, strict
\* validation has been executed on that round's outcome and win events by the time the
\* round's win is added to the totals at the state transition.
C35_WinValidatedBeforeAccumulation ==
  (pc = "transition" /\ ExpectedWinAmount(outcome, config.baseBet) > 0) =>
    /\ validationResult = ValidateStrict(outcome, config.baseBet, winEvents)
    /\ validationResult.expectedWinAmount = ExpectedWinAmount(outcome, config.baseBet)

\* C36: free spins are neither re-triggered nor extended and are played out: the state is
\* FREE exactly while freeSpinsRemaining is positive, the FREE rounds played so far plus
\* those remaining equal triggerCount * freeSpinCount between rounds, and no triggered
\* free spin is left unplayed when the run ends.
C36_FreeSpinsPlayedOut ==
  /\ freeSpinsRemaining \in 0..config.freeSpinCount
  /\ pc \in {"loop", "done"} =>
       /\ (currentState = "FREE") <=> (freeSpinsRemaining > 0)
       /\ freeGameSpinsCount + freeSpinsRemaining = result.triggerCount * config.freeSpinCount
  /\ pc = "done" => (currentState = "BASE" /\ freeSpinsRemaining = 0)

(***************************************************************************)
(* resolve() followed by evaluate() on the 2x4 design, whose paylines have *)
(* four cells: one outcome of the BASE table is resolved without a visual  *)
(* engine and the resolved grid is evaluated.                              *)
(***************************************************************************)
InitWideLine ==
  /\ configPath = "line_wide"
  /\ config = LoadConfig(configPath)
  /\ RoundInit
  /\ seedArgs = NoSeedArgs
  /\ runNo = 0
  /\ firstRun = <<>>
  /\ sim \in { [pc |-> "idle", outcome |-> o, patternResult |-> NoPatternResult,
                winEvents |-> <<>>] : o \in SelectOutcome(config.outcomeTables.BASE) }

\* resolver.resolve(outcome): anchors, fillers, validation and the refill loop
WlResolve ==
  /\ sim.pc = "idle"
  /\ \E base \in ResolveBase(sim.outcome) :
       sim' = [sim EXCEPT !.pc = "resolved",
                          !.patternResult = WithTelemetry(base, InitialTelemetry)]
  /\ UNCHANGED <<roundVars, seedArgs, runNo, firstRun>>

\* evaluator.evaluate(patternResult.grid, ctx)
WlEvaluate ==
  /\ sim.pc = "resolved"
  /\ sim' = [sim EXCEPT !.pc = "evaluated", !.winEvents = Evaluate(sim.patternResult.grid)]
  /\ UNCHANGED <<roundVars, seedArgs, runNo, firstRun>>

NextWideLine == WlResolve \/ WlEvaluate

SpecWideLine == InitWideLine /\ [][NextWideLine]_vars

\* C37: for a WIN outcome with a LINE condition the evaluator reports, on the intended
\* line, a run of exactly the configured matchCount: fillers do not extend the anchors.
C37_RunLengthIsMatchCount ==
  (sim.pc = "evaluated" /\ sim.outcome.type = "WIN" /\ sim.outcome.winCondition.type = "LINE") =>
    /\ Len(sim.winEvents) = 1
    /\ sim.winEvents[1].paylineIndex = sim.patternResult.winLine
    /\ sim.winEvents[1].matchCount = sim.outcome.winCondition.count

\* the events without the amount simulate() writes into them
EventShape(events) == [i \in DOMAIN events |-> [events[i] EXCEPT !.winAmount = 0]]

\* C38: evaluating the final grid of the round, as returned by the engine's call after
\* validation, yields the event that was validated for the round (rule type, line index,
\* positions and match count), or no event when none was validated.
C38_FinalGridEvaluatesAsValidated ==
  pc = "transition" => EventShape(Evaluate(patternResult.grid)) = EventShape(winEvents)

\* C39: a call of the engine changes the caller's VisualState only when the grid it
\* returns carries the tease (the applied type is TEASE, not a fallback to the input),
\* and only if the state was not already changed in the same round.
C39_StateChangesOnlyWithAppliedTease ==
  [][ (visualState' # visualState) =>
        /\ patternResult'.visualTelemetry.visualAppliedType = "TEASE"
        /\ visualState.lastTeaseSpinIndex # globalSpinIndex ]_vars

\* C40: when the returned telemetry reports the applied type TEASE or NEAR_MISS, every
\* cell Phase 1 changed for that effect holds Phase 1's symbol in the returned grid; when
\* it reports NONE and nothing was requested, Phase 1 changed no cell.
C40_AppliedTypeMatchesGrid ==
  sim.pc = "returned" =>
    /\ sim.telemetry.visualAppliedType \in {"TEASE", "NEAR_MISS"} =>
         \A cell \in Cells :
           sim.phase1Grid[cell] # sim.baseGrid[cell] => sim.processedGrid[cell] = sim.phase1Grid[cell]
    /\ (sim.telemetry.visualAppliedType = "NONE" /\ sim.telemetry.visualRequestedType = "NONE") =>
         sim.phase1Grid = sim.baseGrid

====
